---------------------------- MODULE Spec2Model ----------------------------
(***************************************************************************)
(* Model of the SEM campaign driver (sem-conference-showcase.py) and of    *)
(* its utility library (sem_utils.py).                                     *)
(*                                                                         *)
(* Conventions                                                             *)
(*  - A Python str is a sequence of one-character strings; a character    *)
(*    outside ASCII, or a control character without an escape, is written  *)
(*    as the token "U+XXXX" of its code point.                             *)
(*  - A Python float that the code derives from decimal digits is kept     *)
(*    exact: a rate in Mb/s is [whole, micro] = whole + micro/10^6.        *)
(*  - A Python value that may be a scalar or a list is a tagged record     *)
(*    [list |-> BOOLEAN, v |-> value or sequence]; an argument whose type  *)
(*    the code inspects is a record [type, f | l | i | s].                 *)
(*  - The result of a call is a record whose field kind is "value" or      *)
(*    "raise" (with the exception class in field exc).                     *)
(***************************************************************************)
EXTENDS Integers, Sequences, FiniteSets, TLC

VARIABLES
    pc,                       \* position of the main script
    args,                     \* the parsed command line
    MAX_PARALLEL_PROCESSES,   \* sem.parallelrunner.MAX_PARALLEL_PROCESSES
    globals,                  \* the module-level variables of the main script
    param_combination,        \* the OrderedDict built by run_simulations
    db,                       \* the results the campaign holds, in order
    console,                  \* identifiers printed by check_stderr
    calls,                    \* calls made to the campaign manager and the plotting library, in order
    stats,                    \* what the latest plot function computed before drawing
    images,                   \* files written by fig.savefig, in order
    exc,                      \* the exception that ended the script, or "none"
    fn,     \* the library function under call ("none" in the driver runs)
    fin,    \* its arguments
    fout    \* its outcome, [kind |-> "pending"] until the call has returned

fvars == <<fn, fin, fout>>

dvars == <<pc, args, MAX_PARALLEL_PROCESSES, globals, param_combination, db,
           console, calls, stats, images, exc>>

vars == <<pc, args, MAX_PARALLEL_PROCESSES, globals, param_combination, db,
          console, calls, stats, images, exc, fn, fin, fout>>

\* the main script is not running: a library function is called on its own
NoDriver ==
    /\ pc = "none"
    /\ args = <<>>
    /\ MAX_PARALLEL_PROCESSES = "default"
    /\ globals = <<>>
    /\ param_combination = <<>>
    /\ db = <<>>
    /\ console = <<>>
    /\ calls = <<>>
    /\ stats = <<>>
    /\ images = <<>>
    /\ exc = "none"

-----------------------------------------------------------------------------
(* Bounds of the model *)

MaxPrefix == 3      \* longest prefix of a rate string handed to the parser
MaxStas == 4        \* largest station count
MaxTrafficList == 2 \* longest list of fractions drawn for getAppDataRate
MaxNodes == 4       \* longest sequence of per-node values
MaxNodeVal == 3     \* largest per-node value
MaxText == 4        \* longest free-form output text handed to output_to_arr
MaxCols == 2        \* most columns of a well-formed table
MaxRows == 2        \* most data rows of a well-formed table
MaxRuns == 2        \* largest --numRuns
MaxBroken == 3      \* results 1..MaxBroken may end with text on stderr
MaxStored == 3      \* most results stored by a run_missing_simulations that fails

-----------------------------------------------------------------------------
(* Python str helpers *)

Digit == {"0", "1", "2", "3", "4", "5", "6", "7", "8", "9"}

HexDigits ==
    <<"0", "1", "2", "3", "4", "5", "6", "7", "8", "9", "A", "B", "C", "D",
      "E", "F">>

RECURSIVE Hex(_, _)
\* n in hexadecimal, in at least width digits
Hex(n, width) ==
    IF n = 0 /\ width <= 0 THEN ""
    ELSE Hex(n \div 16, width - 1) \o HexDigits[(n % 16) + 1]

\* the character of a code point that a string of the model cannot hold
CodeChar(cp) == "U+" \o Hex(cp, 4)

\* The code points of the digit zero of every script of Unicode 14.0 but
\* ASCII (general category Nd): the digits of a script are the ten code
\* points from its zero on, in the order of their values.  1632 is
\* ARABIC-INDIC DIGIT ZERO (U+0660), 2406 DEVANAGARI DIGIT ZERO (U+0966),
\* 65296 FULLWIDTH DIGIT ZERO (U+FF10).
DecimalZeros ==
    {
      1632, 1776, 1984, 2406, 2534, 2662, 2790, 2918, 3046, 3174, 3302,
      3430, 3558, 3664, 3792, 3872, 4160, 4240, 6112, 6160, 6470, 6608,
      6784, 6800, 6992, 7088, 7232, 7248, 42528, 43216, 43264, 43472, 43504,
      43600, 44016, 65296, 66720, 68912, 69734, 69872, 69942, 70096, 70384,
      70736, 70864, 71248, 71360, 71472, 71904, 72016, 72784, 73040, 73120,
      92768, 92864, 93008, 120782, 120792, 120802, 120812, 120822, 123200,
      123632, 125264, 130032
    }

\* the decimal digits of the other scripts with their values
DecimalTable ==
    { <<CodeChar(z + d), d>> : z \in DecimalZeros, d \in 0..9 }

\* the characters c with c.isdecimal(): int() and float() read them as digits
DecimalChar == Digit \cup { p[1] : p \in DecimalTable }

\* The characters with a numeric value that are no decimal digits
\* (c.isnumeric() holds, c.isdecimal() does not), as the ranges of their
\* code points in Unicode 14.0: superscripts and subscripts, fractions,
\* Roman numerals, circled numbers, ideographs that stand for numbers, ...
\* <<178, 179>> is SUPERSCRIPT TWO and THREE, <<188, 190>> the fractions
\* 1/4, 1/2 and 3/4.
NumericRanges ==
    {
      <<178, 179>>, <<185, 185>>, <<188, 190>>, <<2548, 2553>>,
      <<2930, 2935>>, <<3056, 3058>>, <<3192, 3198>>, <<3416, 3422>>,
      <<3440, 3448>>, <<3882, 3891>>, <<4969, 4988>>, <<5870, 5872>>,
      <<6128, 6137>>, <<6618, 6618>>, <<8304, 8304>>, <<8308, 8313>>,
      <<8320, 8329>>, <<8528, 8578>>, <<8581, 8585>>, <<9312, 9371>>,
      <<9450, 9471>>, <<10102, 10131>>, <<11517, 11517>>, <<12295, 12295>>,
      <<12321, 12329>>, <<12344, 12346>>, <<12690, 12693>>,
      <<12832, 12841>>, <<12872, 12879>>, <<12881, 12895>>,
      <<12928, 12937>>, <<12977, 12991>>, <<13317, 13317>>,
      <<13443, 13443>>, <<14378, 14378>>, <<15181, 15181>>,
      <<19968, 19968>>, <<19971, 19971>>, <<19975, 19975>>,
      <<19977, 19977>>, <<20061, 20061>>, <<20108, 20108>>,
      <<20116, 20116>>, <<20118, 20118>>, <<20159, 20160>>,
      <<20191, 20191>>, <<20200, 20200>>, <<20237, 20237>>,
      <<20336, 20336>>, <<20740, 20740>>, <<20806, 20806>>,
      <<20841, 20841>>, <<20843, 20843>>, <<20845, 20845>>,
      <<21313, 21313>>, <<21315, 21317>>, <<21324, 21324>>,
      <<21441, 21444>>, <<22235, 22235>>, <<22769, 22769>>,
      <<22777, 22777>>, <<24186, 24186>>, <<24318, 24319>>,
      <<24332, 24334>>, <<24336, 24336>>, <<25342, 25342>>,
      <<25420, 25420>>, <<26578, 26578>>, <<28422, 28422>>,
      <<29590, 29590>>, <<30334, 30334>>, <<32902, 32902>>,
      <<33836, 33836>>, <<36014, 36014>>, <<36019, 36019>>,
      <<36144, 36144>>, <<38433, 38433>>, <<38470, 38470>>,
      <<38476, 38476>>, <<38520, 38520>>, <<38646, 38646>>,
      <<42726, 42735>>, <<43056, 43061>>, <<63851, 63851>>,
      <<63859, 63859>>, <<63864, 63864>>, <<63922, 63922>>,
      <<63953, 63953>>, <<63955, 63955>>, <<63997, 63997>>,
      <<65799, 65843>>, <<65856, 65912>>, <<65930, 65931>>,
      <<66273, 66299>>, <<66336, 66339>>, <<66369, 66369>>,
      <<66378, 66378>>, <<66513, 66517>>, <<67672, 67679>>,
      <<67705, 67711>>, <<67751, 67759>>, <<67835, 67839>>,
      <<67862, 67867>>, <<68028, 68029>>, <<68032, 68047>>,
      <<68050, 68095>>, <<68160, 68168>>, <<68221, 68222>>,
      <<68253, 68255>>, <<68331, 68335>>, <<68440, 68447>>,
      <<68472, 68479>>, <<68521, 68527>>, <<68858, 68863>>,
      <<69216, 69246>>, <<69405, 69414>>, <<69457, 69460>>,
      <<69573, 69579>>, <<69714, 69733>>, <<70113, 70132>>,
      <<71482, 71483>>, <<71914, 71922>>, <<72794, 72812>>,
      <<73664, 73684>>, <<74752, 74862>>, <<93019, 93025>>,
      <<93824, 93846>>, <<119520, 119539>>, <<119648, 119672>>,
      <<125127, 125135>>, <<126065, 126123>>, <<126125, 126127>>,
      <<126129, 126132>>, <<126209, 126253>>, <<126255, 126269>>,
      <<127232, 127244>>, <<131073, 131073>>, <<131172, 131172>>,
      <<131298, 131298>>, <<131361, 131361>>, <<133418, 133418>>,
      <<133507, 133507>>, <<133516, 133516>>, <<133532, 133532>>,
      <<133866, 133866>>, <<133885, 133885>>, <<133913, 133913>>,
      <<140176, 140176>>, <<141720, 141720>>, <<146203, 146203>>,
      <<156269, 156269>>, <<194704, 194704>>
    }

OtherNumericChar ==
    UNION { { CodeChar(cp) : cp \in r[1]..r[2] } : r \in NumericRanges }

\* the value of a decimal digit
DigitVal(c) ==
    CASE c = "0" -> 0 [] c = "1" -> 1 [] c = "2" -> 2 [] c = "3" -> 3
      [] c = "4" -> 4 [] c = "5" -> 5 [] c = "6" -> 6 [] c = "7" -> 7
      [] c = "8" -> 8 [] c = "9" -> 9
      [] OTHER -> (CHOOSE p \in DecimalTable : p[1] = c)[2]

\* the ASCII digit of a value 0..9
DigitChar(v) == CHOOSE c \in Digit : DigitVal(c) = v

\* s[-n:]
StrTail(s, n) ==
    IF Len(s) <= n THEN s ELSE SubSeq(s, Len(s) - n + 1, Len(s))

\* s[:-n]
StrFront(s, n) ==
    IF Len(s) <= n THEN <<>> ELSE SubSeq(s, 1, Len(s) - n)

\* str.isnumeric(): non-empty, every character has a numeric value
IsNumeric(s) ==
    /\ Len(s) > 0
    /\ \A i \in 1..Len(s) : s[i] \in DecimalChar \cup OtherNumericChar

\* str.isdecimal(): non-empty, decimal digits only.  float(s) of a string
\* with s.isnumeric() succeeds when s.isdecimal() and is a ValueError
\* otherwise.
IsDecimal(s) ==
    /\ Len(s) > 0
    /\ \A i \in 1..Len(s) : s[i] \in DecimalChar

RECURSIVE DecVal(_)
\* the number a string of decimal digits denotes
DecVal(s) ==
    IF Len(s) = 0 THEN 0
    ELSE 10 * DecVal(SubSeq(s, 1, Len(s) - 1)) + DigitVal(s[Len(s)])

RECURSIVE Pow10(_)
Pow10(e) == IF e = 0 THEN 1 ELSE 10 * Pow10(e - 1)

Value(v) == [kind |-> "value", val |-> v]

Raise(e) == [kind |-> "raise", exc |-> e]

Pending == [kind |-> "pending"]

\* Python's None
None == [none |-> TRUE]

-----------------------------------------------------------------------------
(* sem_utils.data_rate_bps_2_float_mbps *)

\* A mutant: the digits below one Mb/s are dropped.
DivPow10_whole(digits, e) ==
    [whole |-> DecVal(StrFront(digits, e)), micro |-> 0]

\* float(digits) / 10^e, exact, in Mb/s
DivPow10(digits, e) ==
    [whole |-> DecVal(StrFront(digits, e)),
     micro |-> DecVal(StrTail(digits, e)) * Pow10(6 - e)]

\* float(digits) * 10^e, exact, in Mb/s
MulPow10(digits, e) ==
    [whole |-> DecVal(digits) * Pow10(e), micro |-> 0]

\* float(digits) in a branch whose test digits.isnumeric() has passed: the
\* value when every character is a decimal digit, a ValueError raised in
\* that branch otherwise
FloatIn(branch, digits, val) ==
    IF IsDecimal(digits) THEN [kind |-> "value", val |-> val, branch |-> branch]
    ELSE [kind |-> "raise", exc |-> "ValueError", branch |-> branch]

\* A mutant: the kbps branch is tested with the scale of the bps branch.
data_rate_bps_2_float_mbps_kscale(str) ==
    IF StrTail(str, 3) = <<"b", "p", "s">> /\ IsNumeric(StrFront(str, 3))
    THEN FloatIn("bps", StrFront(str, 3), DivPow10(StrFront(str, 3), 6))
    ELSE IF StrTail(str, 4) = <<"k", "b", "p", "s">> /\ IsNumeric(StrFront(str, 4))
    THEN FloatIn("kbps", StrFront(str, 4), DivPow10(StrFront(str, 4), 6))
    ELSE IF StrTail(str, 4) = <<"M", "b", "p", "s">> /\ IsNumeric(StrFront(str, 4))
    THEN FloatIn("Mbps", StrFront(str, 4), MulPow10(StrFront(str, 4), 0))
    ELSE IF StrTail(str, 4) = <<"G", "b", "p", "s">> /\ IsNumeric(StrFront(str, 4))
    THEN FloatIn("Gbps", StrFront(str, 4), MulPow10(StrFront(str, 4), 3))
    ELSE [kind |-> "raise", exc |-> "ValueError", branch |-> "else"]

data_rate_bps_2_float_mbps(str) ==
    IF StrTail(str, 3) = <<"b", "p", "s">> /\ IsNumeric(StrFront(str, 3))
    THEN FloatIn("bps", StrFront(str, 3), DivPow10(StrFront(str, 3), 6))
    ELSE IF StrTail(str, 4) = <<"k", "b", "p", "s">> /\ IsNumeric(StrFront(str, 4))
    THEN FloatIn("kbps", StrFront(str, 4), DivPow10(StrFront(str, 4), 3))
    ELSE IF StrTail(str, 4) = <<"M", "b", "p", "s">> /\ IsNumeric(StrFront(str, 4))
    THEN FloatIn("Mbps", StrFront(str, 4), MulPow10(StrFront(str, 4), 0))
    ELSE IF StrTail(str, 4) = <<"G", "b", "p", "s">> /\ IsNumeric(StrFront(str, 4))
    THEN FloatIn("Gbps", StrFront(str, 4), MulPow10(StrFront(str, 4), 3))
    ELSE [kind |-> "raise", exc |-> "ValueError", branch |-> "else"]

\* The rate strings handed to the parser: a prefix over a small alphabet
\* (digits, a digit of another script, a superscript, a decimal point, a
\* sign, a unit letter) followed by a suffix.
RateAlphabet == {"0", "1", "5", "U+0967", "U+2156", ".", "-", "k"}

RateSuffix ==
    { <<"b", "p", "s">>, <<"k", "b", "p", "s">>, <<"M", "b", "p", "s">>,
      <<"G", "b", "p", "s">>, <<"x", "y", "z">>, <<>>, <<"b", "p">>,
      <<"m", "b", "p", "s">>, <<"K", "b", "p", "s">>, <<"b", "p", "s", " ">>,
      <<"T", "b", "p", "s">>, <<"B", "p", "s">> }

RatePrefix == UNION { [1..n -> RateAlphabet] : n \in 0..MaxPrefix }

RateStrings == { p \o s : p \in RatePrefix, s \in RateSuffix }

InitRate ==
    /\ fn = "data_rate_bps_2_float_mbps"
    /\ fin \in { [str |-> s] : s \in RateStrings }
    /\ fout = Pending
    /\ NoDriver

CallRate ==
    /\ fn = "data_rate_bps_2_float_mbps"
    /\ fout = Pending
    /\ fout' = data_rate_bps_2_float_mbps(fin.str)
    /\ UNCHANGED <<fn, fin>>
    /\ UNCHANGED dvars

SpecRate == InitRate /\ [][CallRate]_vars

UnitSuffix ==
    { <<"b", "p", "s">>, <<"k", "b", "p", "s">>, <<"M", "b", "p", "s">>,
      <<"G", "b", "p", "s">> }

\* p * 10^(e-6) Mb/s for the exponents e of the four units
ScaledMbps(p, e) ==
    CASE e = 0 -> [whole |-> p \div 1000000, micro |-> p % 1000000]
      [] e = 3 -> [whole |-> p \div 1000, micro |-> (p % 1000) * 1000]
      [] e = 6 -> [whole |-> p, micro |-> 0]
      [] e = 9 -> [whole |-> p * 1000, micro |-> 0]

UnitExp(suffix) ==
    CASE suffix = <<"b", "p", "s">> -> 0
      [] suffix = <<"k", "b", "p", "s">> -> 3
      [] suffix = <<"M", "b", "p", "s">> -> 6
      [] suffix = <<"G", "b", "p", "s">> -> 9

UnitName(suffix) ==
    CASE suffix = <<"b", "p", "s">> -> "bps"
      [] suffix = <<"k", "b", "p", "s">> -> "kbps"
      [] suffix = <<"M", "b", "p", "s">> -> "Mbps"
      [] suffix = <<"G", "b", "p", "s">> -> "Gbps"

\* str is a number written in decimal digits followed by the suffix
IsRateOf(str, suffix) ==
    /\ Len(str) > Len(suffix)
    /\ StrTail(str, Len(suffix)) = suffix
    /\ IsDecimal(StrFront(str, Len(suffix)))

\* C7: a numeric prefix p (a number written in decimal digits) followed by
\* bps, kbps, Mbps or Gbps parses to p scaled by 1e-6, 1e-3, 1 or 1e3 (in
\* Mb/s), in the branch of that very suffix; every other string raises
\* ValueError.
C7_RateParsed ==
    (fn = "data_rate_bps_2_float_mbps" /\ fout.kind # "pending") =>
        /\ \A u \in UnitSuffix :
              IsRateOf(fin.str, u) =>
                 /\ fout.kind = "value"
                 /\ fout.val = ScaledMbps(DecVal(StrFront(fin.str, Len(u))),
                                          UnitExp(u))
                 /\ fout.branch = UnitName(u)
        /\ (\A u \in UnitSuffix : ~IsRateOf(fin.str, u)) =>
              /\ fout.kind = "raise"
              /\ fout.exc = "ValueError"

C7_Witness ==
    /\ fn = "data_rate_bps_2_float_mbps"
    /\ fin.str = <<"1", "0", "k", "b", "p", "s">>
    /\ fout.kind = "value"
    /\ fout.val = [whole |-> 0, micro |-> 10000]
    /\ fout.branch = "kbps"

-----------------------------------------------------------------------------
(* sem_utils.MCS_PARAMS: phy_rate of each mode, in units of 10^4 bit/s     *)
(* (27.5e6 = 2750 * 10^4, 1251.25e6 = 125125 * 10^4); app_rate, where the  *)
(* mode has one, in bit/s as mega * 10^6 + unit.                           *)

MCS_PARAMS ==
    [ DMG_MCS0  |-> [phy_rate |-> 2750],
      DMG_MCS1  |-> [phy_rate |-> 38500,
                     app_rate |-> [mega |-> 371, unit |-> 355860]],
      DMG_MCS2  |-> [phy_rate |-> 77000,
                     app_rate |-> [mega |-> 740, unit |-> 66284]],
      DMG_MCS3  |-> [phy_rate |-> 96250,
                     app_rate |-> [mega |-> 924, unit |-> 107739]],
      DMG_MCS4  |-> [phy_rate |-> 115500,
                     app_rate |-> [mega |-> 1107, unit |-> 782893]],
      DMG_MCS5  |-> [phy_rate |-> 125125,
                     app_rate |-> [mega |-> 1199, unit |-> 790607]],
      DMG_MCS6  |-> [phy_rate |-> 154000,
                     app_rate |-> [mega |-> 1474, unit |-> 81443]],
      DMG_MCS7  |-> [phy_rate |-> 192500,
                     app_rate |-> [mega |-> 1838, unit |-> 998395]],
      DMG_MCS8  |-> [phy_rate |-> 231000,
                     app_rate |-> [mega |-> 2202, unit |-> 194744]],
      DMG_MCS9  |-> [phy_rate |-> 250250],
      DMG_MCS10 |-> [phy_rate |-> 308000],
      DMG_MCS11 |-> [phy_rate |-> 385000],
      DMG_MCS12 |-> [phy_rate |-> 462000] ]

Modes == DOMAIN MCS_PARAMS

-----------------------------------------------------------------------------
(* Python floats are IEEE 754 doubles.  Where the digits of a result depend *)
(* on the rounding of the double arithmetic, that arithmetic is followed    *)
(* bit by bit: a natural number of any size is the sequence of its digits  *)
(* in base 2^15, least significant first, without leading zero digits      *)
(* (zero is <<>>); a non-negative double is [m, e] for m * 2^e, with m of  *)
(* at most 53 bits.  Subnormal numbers and overflow are out of reach of    *)
(* the values computed here.                                               *)

BigBase == 32768

RECURSIVE Pow2(_)
Pow2(e) == IF e = 0 THEN 1 ELSE 2 * Pow2(e - 1)

RECURSIVE BitLen(_)
\* number of binary digits of n
BitLen(n) == IF n = 0 THEN 0 ELSE 1 + BitLen(n \div 2)

RECURSIVE BigTrim(_)
BigTrim(a) ==
    IF Len(a) > 0 /\ a[Len(a)] = 0 THEN BigTrim(SubSeq(a, 1, Len(a) - 1))
    ELSE a

RECURSIVE BigOf(_)
\* the digits of a natural number n
BigOf(n) == IF n = 0 THEN <<>> ELSE << n % BigBase >> \o BigOf(n \div BigBase)

RECURSIVE BigMulAdd(_, _, _)
\* a * c + carry for c <= 2^15
BigMulAdd(a, c, carry) ==
    IF Len(a) = 0 THEN BigOf(carry)
    ELSE LET t == a[1] * c + carry
         IN  << t % BigBase >> \o BigMulAdd(Tail(a), c, t \div BigBase)

RECURSIVE BigAdd(_, _, _)
\* a + b + carry
BigAdd(a, b, carry) ==
    IF Len(a) = 0 /\ Len(b) = 0 THEN BigOf(carry)
    ELSE LET x == IF Len(a) > 0 THEN a[1] ELSE 0
             y == IF Len(b) > 0 THEN b[1] ELSE 0
             t == x + y + carry
         IN  << t % BigBase >>
             \o BigAdd(IF Len(a) > 0 THEN Tail(a) ELSE <<>>,
                       IF Len(b) > 0 THEN Tail(b) ELSE <<>>, t \div BigBase)

RECURSIVE BigMul(_, _)
\* a * b
BigMul(a, b) ==
    IF Len(b) = 0 THEN <<>>
    ELSE BigTrim(BigAdd(BigMulAdd(a, b[1], 0), << 0 >> \o BigMul(a, Tail(b)), 0))

RECURSIVE BigDivMod(_, _)
\* quotient and remainder of a by c, for 0 < c < 2^16
BigDivMod(a, c) ==
    IF Len(a) = 0 THEN [q |-> <<>>, r |-> 0]
    ELSE LET hi  == BigDivMod(Tail(a), c)
             cur == hi.r * BigBase + a[1]
         IN  [q |-> BigTrim(<< cur \div c >> \o hi.q), r |-> cur % c]

BigBitLen(a) ==
    IF Len(a) = 0 THEN 0 ELSE 15 * (Len(a) - 1) + BitLen(a[Len(a)])

BigIsOdd(a) == Len(a) > 0 /\ a[1] % 2 = 1

\* a * 2^t
BigShl(a, t) ==
    IF Len(a) = 0 THEN <<>>
    ELSE [i \in 1..(t \div 15) |-> 0] \o BigTrim(BigMulAdd(a, Pow2(t % 15), 0))

\* a \div 2^t, and whether a bit that is set has been shifted out
BigShr(a, t) ==
    LET w    == IF t \div 15 < Len(a) THEN t \div 15 ELSE Len(a)
        low  == SubSeq(a, 1, w)
        high == SubSeq(a, w + 1, Len(a))
        d    == BigDivMod(high, Pow2(t % 15))
    IN  [q |-> d.q,
         sticky |-> d.r # 0 \/ \E i \in 1..Len(low) : low[i] # 0]

RECURSIVE BigDigits(_)
BigDigits(a) ==
    IF Len(a) = 0 THEN <<>>
    ELSE LET d == BigDivMod(a, 10) IN BigDigits(d.q) \o << DigitChar(d.r) >>

\* str(a)
BigToDec(a) == IF Len(a) = 0 THEN << "0" >> ELSE BigDigits(a)

\* The nearest integer to (n + d) / 2^t, ties to even, for a fraction
\* 0 <= d < 1 that is non-zero exactly when sticky holds (t >= 1).
BigRoundShr(n, t, sticky) ==
    LET s    == BigShr(n, t - 1)
        q    == BigShr(s.q, 1).q
        rest == s.sticky \/ sticky
        up   == BigIsOdd(s.q) /\ (rest \/ BigIsOdd(q))
    IN  IF up THEN BigAdd(q, << 1 >>, 0) ELSE q

\* The double nearest to (n + d) * 2^e (round to nearest, ties to even),
\* d as above.  An inexact n comes with more than 53 bits.
RoundToDouble(n, e, sticky) ==
    LET len == BigBitLen(n)
    IN  IF len <= 53 THEN [m |-> n, e |-> e]
        ELSE [m |-> BigRoundShr(n, len - 53, sticky), e |-> e + len - 53]

\* the float of a decimal literal or string k/100 (0.75 for k = 75)
FloatOfHundredths(k) ==
    LET d == BigDivMod(BigShl(BigOf(k), 75), 100)
    IN  RoundToDouble(d.q, -75, d.r # 0)

\* the float of a natural number below 2^53
FloatOfBig(a) == [m |-> a, e |-> 0]

\* x / n for a double x and an int 0 < n < 2^16
DoubleDivInt(x, n) ==
    LET d == BigDivMod(BigShl(x.m, 75), n)
    IN  RoundToDouble(d.q, x.e - 75, d.r # 0)

\* x * y
DoubleMul(x, y) == RoundToDouble(BigMul(x.m, y.m), x.e + y.e, FALSE)

\* "{:.0f}".format(x): the integer nearest to x, ties to even, in decimal
FormatF0(x) ==
    IF x.e >= 0 THEN BigToDec(BigShl(x.m, x.e))
    ELSE BigToDec(BigRoundShr(x.m, -x.e, FALSE))

-----------------------------------------------------------------------------
(* getAppDataRate.  A fraction is kept in hundredths (0.75 is 75) and      *)
(* stands for the float of that decimal; phy_rate is in units of 10^4      *)
(* bit/s.                                                                  *)

RECURSIVE DecStr(_)
\* str(n) for a natural number n
DecStr(n) ==
    IF n < 10 THEN << DigitChar(n) >>
    ELSE DecStr(n \div 10) \o << DigitChar(n % 10) >>

\* A mutant: the fractional part of the exact value is cut off instead of
\* rounded.
FormatBps_trunc(k, phy, n) ==
    LET a  == (k * phy) \div n
        r  == (k * phy) % n
        lo == (100 * r) \div n
    IN  (IF a = 0 THEN DecStr(lo)
         ELSE DecStr(a) \o (IF lo < 10 THEN <<"0">> ELSE <<>>) \o DecStr(lo))
        \o <<"b", "p", "s">>

\* "{:.0f}bps".format(r * rate_per_sta) with r the float k/100 and
\* rate_per_sta = phy_rate / num_stas: two roundings to a double, then the
\* rounding of the format
FormatBps(k, phy, n) ==
    LET phy_rate     == FloatOfBig(BigMulAdd(BigOf(phy), 10000, 0))
        rate_per_sta == DoubleDivInt(phy_rate, n)
        r            == FloatOfHundredths(k)
    IN  FormatF0(DoubleMul(r, rate_per_sta)) \o <<"b", "p", "s">>

getAppDataRate(phy_mode, num_stas, norm_offered_traffic) ==
    IF phy_mode \notin Modes THEN Raise("KeyError")
    ELSE IF num_stas = 0 THEN Raise("ZeroDivisionError")
    ELSE LET phy_rate == MCS_PARAMS[phy_mode].phy_rate
         IN  IF norm_offered_traffic.type = "list"
             THEN Value([list |-> TRUE,
                         v |-> [i \in 1..Len(norm_offered_traffic.l) |->
                                  FormatBps(norm_offered_traffic.l[i],
                                            phy_rate, num_stas)]])
             ELSE IF norm_offered_traffic.type = "float"
             THEN Value([list |-> TRUE,
                         v |-> << FormatBps(norm_offered_traffic.f,
                                            phy_rate, num_stas) >>])
             \* the ValueError is built and dropped; sta_rate is unbound
             ELSE Raise("UnboundLocalError")

\* The fractions (in hundredths) the harness draws
TrafficFractions == {0, 1, 7, 10, 29, 75, 100}

\* a station count for which 0.07 and 0.29 of the DMG_MCS0 rate lie halfway
\* between two whole numbers (120312.5 and 498437.5 bit/s)
TieStas == 16

\* norm_offered_traffic of the basic and onoff presets
PresetTraffic == <<1, 10, 20, 30, 40, 50, 60, 70, 80, 90, 100>>

TrafficInputs ==
    { [type |-> "float", f |-> k] : k \in TrafficFractions }
    \cup { [type |-> "list", l |-> l] :
             l \in UNION { [1..m -> TrafficFractions] : m \in 0..MaxTrafficList } }
    \cup { [type |-> "list", l |-> PresetTraffic] }
    \cup { [type |-> "int", i |-> 1], [type |-> "str", s |-> <<"1">>] }

InitAppRate ==
    /\ fn = "getAppDataRate"
    /\ fin \in [phy_mode : Modes \cup {"DMG_MCS13"},
                num_stas : (0..MaxStas) \cup {TieStas},
                norm_offered_traffic : TrafficInputs]
    /\ fout = Pending
    /\ NoDriver

CallAppRate ==
    /\ fn = "getAppDataRate"
    /\ fout = Pending
    /\ fout' = getAppDataRate(fin.phy_mode, fin.num_stas, fin.norm_offered_traffic)
    /\ UNCHANGED <<fn, fin>>
    /\ UNCHANGED dvars

SpecAppRate == InitAppRate /\ [][CallAppRate]_vars

\* str is the whole number nearest to k/100 * phy_rate / n, followed by bps
IsRateString(str, k, phy, n) ==
    LET digits == StrFront(str, 3)
        hi     == DecVal(StrFront(digits, 2))
        lo     == DecVal(StrTail(digits, 2))
        a      == (k * phy) \div n
        r      == (k * phy) % n
        d      == 100 * n * (hi - a) + n * lo - 100 * r    \* n * (N - exact)
    IN  /\ StrTail(str, 3) = <<"b", "p", "s">>
        /\ IsNumeric(digits)
        /\ (Len(digits) > 1 => digits[1] # "0")
        /\ hi - a \in {0, 1}
        /\ 2 * d <= n
        /\ -2 * d <= n

AppRateReturned ==
    /\ fn = "getAppDataRate"
    /\ fout.kind # "pending"
    /\ fin.phy_mode \in Modes
    /\ fin.num_stas > 0

ListRatesRight ==
    fin.norm_offered_traffic.type = "list" =>
        /\ fout.kind = "value"
        /\ fout.val.list
        /\ Len(fout.val.v) = Len(fin.norm_offered_traffic.l)
        /\ \A i \in 1..Len(fout.val.v) :
              IsRateString(fout.val.v[i], fin.norm_offered_traffic.l[i],
                           MCS_PARAMS[fin.phy_mode].phy_rate, fin.num_stas)

\* C8 as stated: a scalar fraction yields a single rate string (not a
\* list), a list of fractions yields the list of their rate strings.
C8_Original ==
    AppRateReturned =>
        /\ fin.norm_offered_traffic.type = "float" =>
              /\ fout.kind = "value"
              /\ ~fout.val.list
        /\ ListRatesRight

\* C8 amended: a scalar fraction yields a list holding exactly one rate
\* string, the whole number nearest to f * phy_rate / n followed by bps; a
\* list of fractions yields a list of the same length and order whose i-th
\* element is that rate string of the i-th fraction.
C8_RateList ==
    AppRateReturned =>
        /\ fin.norm_offered_traffic.type = "float" =>
              /\ fout.kind = "value"
              /\ fout.val.list
              /\ Len(fout.val.v) = 1
              /\ IsRateString(fout.val.v[1], fin.norm_offered_traffic.f,
                              MCS_PARAMS[fin.phy_mode].phy_rate, fin.num_stas)
        /\ ListRatesRight

C8_Witness ==
    /\ fn = "getAppDataRate"
    /\ fin = [phy_mode |-> "DMG_MCS4", num_stas |-> 4,
              norm_offered_traffic |-> [type |-> "float", f |-> 75]]
    /\ fout = Value([list |-> TRUE,
                     v |-> << <<"2", "1", "6", "5", "6", "2", "5", "0", "0",
                                "b", "p", "s">> >>])

\* C9 as stated: a norm_offered_traffic that is neither a list nor a float
\* makes getAppDataRate raise ValueError.
C9_ValueError ==
    (AppRateReturned /\ fin.norm_offered_traffic.type \notin {"list", "float"}) =>
        /\ fout.kind = "raise"
        /\ fout.exc = "ValueError"

-----------------------------------------------------------------------------
(* sem_utils.jain_fairness.  Values are exact rationals [num, den]; the    *)
(* double arithmetic of numpy is not modelled, a division 0/0 is NaN.      *)

Rat(n, d) == [num |-> n, den |-> d]

NaN == [nan |-> TRUE]

RECURSIVE SeqSum(_)
SeqSum(xx) == IF Len(xx) = 0 THEN 0 ELSE xx[1] + SeqSum(Tail(xx))

\* np.mean of a sequence of integers
NpMean(xx) == IF Len(xx) = 0 THEN NaN ELSE Rat(SeqSum(xx), Len(xx))

\* np.power(xx, 2) of a sequence
NpSquares(xx) == [i \in 1..Len(xx) |-> xx[i] * xx[i]]

\* a / b for two numpy doubles: NaN spreads, 0/0 is NaN, x/0 is inf
NpDivide(a, b) ==
    IF a = NaN \/ b = NaN THEN NaN
    ELSE IF b.num = 0 THEN (IF a.num = 0 THEN NaN ELSE [inf |-> TRUE])
    ELSE Rat(a.num * b.den, a.den * b.num)

NpSquare(a) == IF a = NaN THEN NaN ELSE Rat(a.num * a.num, a.den * a.den)

\* A mutant: the denominator is the sum of the squares, not their mean.
jain_fairness_sum(xx) ==
    NpDivide(NpSquare(NpMean(xx)), Rat(SeqSum(NpSquares(xx)), 1))

jain_fairness(xx) ==
    NpDivide(NpSquare(NpMean(xx)), NpMean(NpSquares(xx)))

NodeValues == UNION { [1..n -> 0..MaxNodeVal] : n \in 0..MaxNodes }

InitJain ==
    /\ fn = "jain_fairness"
    /\ fin \in { [xx |-> x] : x \in NodeValues }
    /\ fout = Pending
    /\ NoDriver

CallJain ==
    /\ fn = "jain_fairness"
    /\ fout = Pending
    /\ fout' = Value(jain_fairness(fin.xx))
    /\ UNCHANGED <<fn, fin>>
    /\ UNCHANGED dvars

SpecJain == InitJain /\ [][CallJain]_vars

JainReturned ==
    /\ fn = "jain_fairness"
    /\ fout.kind = "value"
    /\ Len(fin.xx) > 0

NonZeroCount(xx) == Cardinality({ i \in 1..Len(xx) : xx[i] # 0 })

\* the index is a number in (0,1], 1 for equal values and 1/n for a single
\* non-zero value among n, and it is mean(x)^2 / mean(x^2)
IsJainIndex(j, xx) ==
    LET n == Len(xx)
        S == SeqSum(xx)
        Q == SeqSum([i \in 1..n |-> xx[i] * xx[i]])
    IN  /\ DOMAIN j = {"num", "den"}
        /\ j.den > 0
        /\ j.num * n * Q = j.den * S * S
        /\ 0 < j.num
        /\ j.num <= j.den
        /\ (\A i \in 1..n : xx[i] = xx[1]) => j.num = j.den
        /\ NonZeroCount(xx) = 1 => j.num * n = j.den

\* C10 as stated: for every non-empty sequence of non-negative values the
\* index is mean(x)^2 / mean(x^2), lies in (0,1], is 1 for equal values and
\* 1/n when one value of n is non-zero.
C10_Original ==
    JainReturned => IsJainIndex(fout.val, fin.xx)

\* C10 amended: the same for every non-empty sequence of non-negative values
\* that are not all zero; for an all-zero sequence the result is NaN.
C10_Jain ==
    JainReturned =>
        /\ NonZeroCount(fin.xx) > 0 => IsJainIndex(fout.val, fin.xx)
        /\ NonZeroCount(fin.xx) = 0 => fout.val = NaN

C10_Witness ==
    /\ fn = "jain_fairness"
    /\ fin.xx = <<1, 0, 0, 0>>
    /\ fout.kind = "value"
    /\ fout.val # NaN
    /\ 4 * fout.val.num = fout.val.den

-----------------------------------------------------------------------------
(* sem_utils.output_to_arr *)

NL == "\n"

RECURSIVE RStrip(_, _)
\* s.rstrip(c)
RStrip(s, c) ==
    IF Len(s) > 0 /\ s[Len(s)] = c THEN RStrip(SubSeq(s, 1, Len(s) - 1), c)
    ELSE s

RECURSIVE Split(_, _)
\* s.split(c) for a one-character separator: never an empty list
Split(s, c) ==
    IF \A i \in 1..Len(s) : s[i] # c THEN << s >>
    ELSE LET k == CHOOSE i \in 1..Len(s) :
                      s[i] = c /\ \A j \in 1..(i - 1) : s[j] # c
         IN  << SubSeq(s, 1, k - 1) >> \o Split(SubSeq(s, k + 1, Len(s)), c)

\* The characters int() strips from both ends of its argument: the white
\* space of ASCII (space, tab, line feed, vertical tab, form feed, carriage
\* return) and, by their code points, the white space of Unicode: next
\* line, no-break space, ogham space mark, en quad .. hair space, line and
\* paragraph separator, narrow no-break space, medium mathematical space,
\* ideographic space.  The separators U+001C .. U+001F are not stripped.
Whitespace ==
    {" ", "\t", "\n", "\r", "\f"}
    \cup { CodeChar(cp) : cp \in {11, 133, 160, 5760} \cup (8192..8202)
                                  \cup {8232, 8233, 8239, 8287, 12288} }

RECURSIVE LStrip(_)
LStrip(s) ==
    IF Len(s) > 0 /\ s[1] \in Whitespace THEN LStrip(Tail(s)) ELSE s

RECURSIVE RStripSpace(_)
RStripSpace(s) ==
    IF Len(s) > 0 /\ s[Len(s)] \in Whitespace
    THEN RStripSpace(SubSeq(s, 1, Len(s) - 1))
    ELSE s

\* val without the white space around it and without its sign
Unsigned(val) ==
    LET t == RStripSpace(LStrip(val))
    IN  IF Len(t) > 0 /\ t[1] \in {"+", "-"} THEN Tail(t) ELSE t

IsNegative(val) ==
    LET t == LStrip(val) IN Len(t) > 0 /\ t[1] = "-"

\* sys.int_info.default_max_str_digits: int() refuses a literal of more
\* decimal digits (Python 3.11)
MaxStrDigits == 4300

\* int(val) succeeds: optional white space, an optional sign, then decimal
\* digits (of any script) with single underscores between them, at most
\* MaxStrDigits digits, leading zeros counted
IsIntLiteral(val) ==
    LET u == Unsigned(val)
    IN  /\ Len(u) > 0
        /\ \A i \in 1..Len(u) : u[i] \in DecimalChar \cup {"_"}
        /\ u[1] # "_"
        /\ u[Len(u)] # "_"
        /\ \A i \in 1..(Len(u) - 1) : ~(u[i] = "_" /\ u[i + 1] = "_")
        /\ Cardinality({ i \in 1..Len(u) : u[i] # "_" }) <= MaxStrDigits

RECURSIVE StripZeros(_)
\* decimal digits without leading zeros
StripZeros(d) ==
    IF Len(d) > 1 /\ d[1] = "0" THEN StripZeros(Tail(d)) ELSE d

\* the ASCII digits of the magnitude of int(val)
Magnitude(val) ==
    LET u == SelectSeq(Unsigned(val), LAMBDA c : c # "_")
    IN  StripZeros([i \in 1..Len(u) |-> DigitChar(DigitVal(u[i]))])

\* int(val): a Python int has no bound, so it is kept as its sign and the
\* decimal digits of its magnitude
IntOf(val) ==
    LET mag == Magnitude(val)
    IN  [neg |-> IsNegative(val) /\ mag # <<"0">>, mag |-> mag]

\* the Python int of a small natural number
PyInt(n) == [neg |-> FALSE, mag |-> DecStr(n)]

\* a <= b for two strings of decimal digits without leading zeros
DigitsLeq(a, b) ==
    \/ Len(a) < Len(b)
    \/ /\ Len(a) = Len(b)
       /\ \/ a = b
          \/ \E i \in 1..Len(a) :
                /\ DigitVal(a[i]) < DigitVal(b[i])
                /\ \A j \in 1..(i - 1) : a[j] = b[j]

\* 2^63 - 1 and 2^63
Int64Max ==
    <<"9", "2", "2", "3", "3", "7", "2", "0", "3", "6", "8", "5", "4", "7",
      "7", "5", "8", "0", "7">>

Int64MinMagnitude ==
    <<"9", "2", "2", "3", "3", "7", "2", "0", "3", "6", "8", "5", "4", "7",
      "7", "5", "8", "0", "8">>

\* the int fits a cell of an array of dtype int (64 bits)
FitsInt64(n) ==
    DigitsLeq(n.mag, IF n.neg THEN Int64MinMagnitude ELSE Int64Max)

\* np.zeros((rows, cols)): float64
NpZeros(rows, cols) ==
    [dtype |-> "float", rows |-> rows, cols |-> cols,
     data |-> [i \in 1..rows |-> [j \in 1..cols |-> 0]]]

\* the exception of arr[i, j] = int(val) for column j (from 1) of an array
\* of ncols columns, "none" when the assignment succeeds: int(val) comes
\* first, then the index, then the conversion to 64 bits
CellError(val, j, ncols) ==
    IF ~IsIntLiteral(val) THEN "ValueError"
    ELSE IF j > ncols THEN "IndexError"
    ELSE IF ~FitsInt64(IntOf(val)) THEN "OverflowError"
    ELSE "none"

\* the cell of the first failing arr[i, j] = int(val), in row-major order;
\* <<0, 0>> when every assignment succeeds
FirstBadCell(lines, ncols) ==
    LET cells == UNION { { <<i, j>> : j \in 1..Len(lines[i]) } :
                         i \in 1..Len(lines) }
        bad   == { ij \in cells :
                     CellError(lines[ij[1]][ij[2]], ij[2], ncols) # "none" }
    IN  IF bad = {} THEN <<0, 0>>
        ELSE CHOOSE ij \in bad :
                \A o \in bad : \/ ij[1] < o[1]
                               \/ (ij[1] = o[1] /\ ij[2] <= o[2])

\* A mutant: every value of numeric_cols but a list passes the assertion.
IsAllLiteral_lax(numeric_cols) == numeric_cols.type # "list"

\* numeric_cols is 'all': identity with the interned literal
IsAllLiteral(numeric_cols) ==
    /\ numeric_cols.type = "str"
    /\ numeric_cols.s = "all"
    /\ numeric_cols.literal

\* parsed_data_len > 1
HasDataRows(parsed_data_len) == parsed_data_len > 1

\* the rows the loop of output_to_arr runs over, each split into its cells,
\* and the number of columns of the array, for a result that holds the file
ParsedRows(result, data_filename, column_sep, row_sep, columns) ==
    LET columns1    == IF columns.type = "NoneType" THEN <<>> ELSE columns.l
        data        == RStrip(result.output[data_filename], NL)
        parsed_data == Split(data, row_sep)
        header      == Len(columns1) = 0
        rows        == IF header THEN Tail(parsed_data) ELSE parsed_data
    IN  [parsed_data_len |-> Len(parsed_data),
         ncols |-> IF header THEN Len(Split(parsed_data[1], column_sep))
                   ELSE Len(columns1),
         lines |-> [i \in 1..Len(rows) |-> Split(rows[i], column_sep)]]

\* the cells of np.empty((rows, ncols)) that the loop assigns nothing to:
\* those of a row with fewer cells than there are columns
UnassignedCells(lines, ncols) ==
    UNION { { <<i, j>> : j \in (Len(lines[i]) + 1)..ncols } :
            i \in 1..Len(lines) }

\* uninit is what the cells of np.empty hold before they are assigned, cell
\* by cell
output_to_arr(result, data_filename, column_sep, row_sep, columns, numeric_cols, uninit) ==
    IF ~IsAllLiteral(numeric_cols)
    THEN [kind |-> "raise", exc |-> "AssertionError", rowsParsed |-> 0]
    ELSE IF data_filename \notin DOMAIN result.output
    THEN [kind |-> "raise", exc |-> "AssertionError", rowsParsed |-> 0]
    ELSE
    LET parsed == ParsedRows(result, data_filename, column_sep, row_sep, columns)
        lines  == parsed.lines
        ncols  == parsed.ncols
        bad    == FirstBadCell(lines, ncols)
    IN
    IF parsed.parsed_data_len = 0
    THEN [kind |-> "value", val |-> NpZeros(0, 0), rowsParsed |-> 0]
    ELSE IF ~HasDataRows(Len(lines))
    THEN [kind |-> "value", val |-> NpZeros(0, ncols), rowsParsed |-> 0]
    ELSE IF bad # <<0, 0>>
    THEN [kind |-> "raise",
          exc |-> CellError(lines[bad[1]][bad[2]], bad[2], ncols),
          rowsParsed |-> bad[1] - 1]
    ELSE [kind |-> "value",
          val |-> [dtype |-> "int", rows |-> Len(lines), cols |-> ncols,
                   data |-> [i \in 1..Len(lines) |-> [j \in 1..ncols |->
                               IF j <= Len(lines[i]) THEN IntOf(lines[i][j])
                               ELSE uninit[<<i, j>>]]]],
          rowsParsed |-> Len(lines)]

\* Output texts: every text over a small alphabet up to MaxText characters,
\* and every well-formed table (a header row, then rows of integers).
TextAlphabet == {"a", "1", "-", " ", ",", NL}

FreeTexts == UNION { [1..n -> TextAlphabet] : n \in 0..MaxText }

ColumnNames == << <<"a">>, <<"b">> >>

CellTexts ==
    { <<"1">>, <<"2">>, <<"-", "2">>, <<"1", "_", "0">>,
      <<"U+3000", "U+0967", "\r">> }

RECURSIVE Join(_, _)
\* c.join(parts)
Join(parts, c) ==
    IF Len(parts) = 0 THEN <<>>
    ELSE IF Len(parts) = 1 THEN parts[1]
    ELSE parts[1] \o << c >> \o Join(Tail(parts), c)

Tables ==
    UNION { { [ncols |-> c, cells |-> m] :
                m \in [1..k -> [1..c -> CellTexts]] } :
            c \in 1..MaxCols, k \in 0..MaxRows }

TableText(t) ==
    Join(<< Join(SubSeq(ColumnNames, 1, t.ncols), ",") >>
         \o [i \in 1..Len(t.cells) |-> Join(t.cells[i], ",")], NL)

TraceTexts == FreeTexts \cup { TableText(t) : t \in Tables }

NumericColsInputs ==
    { [type |-> "NoneType"],
      [type |-> "list", l |-> << <<"a">> >>],
      [type |-> "str", s |-> "all", literal |-> TRUE],
      [type |-> "str", s |-> "all", literal |-> FALSE],
      [type |-> "str", s |-> "a", literal |-> FALSE] }

ColumnsInputs ==
    { [type |-> "NoneType"], [type |-> "list", l |-> ColumnNames] }

ResultInputs ==
    { [output |-> [f \in {"stderr", "packetsTrace.csv"} |->
                      IF f = "stderr" THEN <<>> ELSE t]] : t \in TraceTexts }
    \cup { [output |-> [f \in {"stderr"} |-> <<>>]] }

UninitValues == { PyInt(0), PyInt(7) }

InitArr ==
    /\ fn = "output_to_arr"
    /\ fin \in [result : ResultInputs,
                data_filename : {"packetsTrace.csv"},
                column_sep : {","},
                row_sep : {NL},
                columns : ColumnsInputs,
                numeric_cols : NumericColsInputs]
    /\ fout = Pending
    /\ NoDriver

\* the contents np.empty may hand out for the cells the call leaves
\* unassigned, each cell on its own
UninitArrays(f) ==
    IF f.data_filename \notin DOMAIN f.result.output THEN { <<>> }
    ELSE LET parsed == ParsedRows(f.result, f.data_filename, f.column_sep,
                                  f.row_sep, f.columns)
         IN  [UnassignedCells(parsed.lines, parsed.ncols) -> UninitValues]

CallArr ==
    /\ fn = "output_to_arr"
    /\ fout = Pending
    /\ \E uninit \in UninitArrays(fin) :
          fout' = output_to_arr(fin.result, fin.data_filename, fin.column_sep,
                                fin.row_sep, fin.columns, fin.numeric_cols,
                                uninit)
    /\ UNCHANGED <<fn, fin>>
    /\ UNCHANGED dvars

SpecArr == InitArr /\ [][CallArr]_vars

ArrReturned ==
    /\ fn = "output_to_arr"
    /\ fout.kind # "pending"

\* called with no explicit columns and numeric_cols='all' on a text
ArrCalledOn(text) ==
    /\ ArrReturned
    /\ fin.columns.type = "NoneType"
    /\ fin.numeric_cols = [type |-> "str", s |-> "all", literal |-> TRUE]
    /\ fin.data_filename \in DOMAIN fin.result.output
    /\ fin.result.output[fin.data_filename] = text

\* C4 as stated: a header row followed by k >= 1 rows of integers yields the
\* k x (number of header names) table of those integers.
C4_TableParsed ==
    \A t \in Tables :
        (Len(t.cells) >= 1 /\ ArrCalledOn(TableText(t))) =>
            /\ fout.kind = "value"
            /\ fout.val.rows = Len(t.cells)
            /\ fout.val.cols = t.ncols
            /\ \A i \in 1..Len(t.cells) : \A j \in 1..t.ncols :
                  fout.val.data[i][j] = IntOf(t.cells[i][j])

\* C5 as stated: the empty output text yields a table with 0 rows and 0
\* columns.
C5_EmptyIsZeroByZero ==
    (ArrReturned
       /\ fin.numeric_cols = [type |-> "str", s |-> "all", literal |-> TRUE]
       /\ fin.data_filename \in DOMAIN fin.result.output
       /\ fin.result.output[fin.data_filename] = <<>>) =>
        /\ fout.kind = "value"
        /\ fout.val.rows = 0
        /\ fout.val.cols = 0

IsAllString(numeric_cols) ==
    numeric_cols.type = "str" /\ numeric_cols.s = "all"

\* C6: a numeric_cols other than 'all' (the default None included) and a
\* data_filename that is no key of result['output'] each end the call in an
\* error, without a table and before any row is parsed.
C6_Rejected ==
    (ArrReturned
       /\ \/ ~IsAllString(fin.numeric_cols)
          \/ fin.data_filename \notin DOMAIN fin.result.output) =>
        /\ fout.kind = "raise"
        /\ fout.exc = "AssertionError"
        /\ fout.rowsParsed = 0

C6_Witness ==
    /\ fn = "output_to_arr"
    /\ fin.numeric_cols = [type |-> "NoneType"]
    /\ fin.data_filename \in DOMAIN fin.result.output
    /\ fin.result.output[fin.data_filename]
          = <<"a", ",", "b", NL, "1", ",", "2", NL, "1", ",", "2">>
    /\ fout.kind = "raise"

-----------------------------------------------------------------------------
(* The main script of sem-conference-showcase.py and the functions it      *)
(* calls.  The campaign manager (sem) and the plotting library are outside *)
(* the repository: a call to them is recorded in calls, run_missing_       *)
(* simulations adds one result per parameter combination, and the result   *)
(* getters hand every stored result of the space to the parsing function.  *)

S(x) == [list |-> FALSE, v |-> x]

L(x) == [list |-> TRUE, v |-> x]

\* A mutant: the run numbers start at 1.
Range_from1(n) == [i \in 1..n |-> i]

\* list(range(n))
Range(n) == [i \in 1..n |-> i - 1]

\* argparse: the flags the model varies, the others at their defaults
Args ==
    [paramSet : {"basic", "onoff", "onoff_stdev", "spPeriodicity",
                 "onoffPeriodicity", "", "unknown"},
     cores : {1, 4},
     numRuns : 1..MaxRuns,
     applicationType : {"constant"},
     normOfferedTraffic : {75},
     socketType : {"ns3::UdpSocketFactory"},
     mpduAggregationSize : {262143, 65535},
     phyMode : {"DMG_MCS4", "DMG_MCS13"},
     simulationTime : {10},
     numStas : 0..MaxStas,
     accessCbapIfAllocated : {"true"},
     biDurationUs : {102400},
     onoffPeriodMean : {Rat(1024, 10000)},
     onoffPeriodStdev : {Rat(0, 1)}]

\* A mutant: an unrecognized paramSet is run as the basic preset.
PresetBranch_default(paramSet) ==
    IF paramSet = "onoff" THEN "onoff"
    ELSE IF paramSet = "onoff_stdev" THEN "onoff_stdev"
    ELSE IF paramSet = "spPeriodicity" THEN "spPeriodicity"
    ELSE IF paramSet = "onoffPeriodicity" THEN "onoffPeriodicity"
    ELSE "basic"

\* the if / elif chain on args.paramSet
PresetBranch(paramSet) ==
    IF paramSet = "basic" THEN "basic"
    ELSE IF paramSet = "onoff" THEN "onoff"
    ELSE IF paramSet = "onoff_stdev" THEN "onoff_stdev"
    ELSE IF paramSet = "spPeriodicity" THEN "spPeriodicity"
    ELSE IF paramSet = "onoffPeriodicity" THEN "onoffPeriodicity"
    ELSE "else"

\* onOffPeriodDeviationRatio, in thousandths
onOffPeriodDeviationRatio == <<0, 1, 2, 5, 10, 20, 50, 100, 200>>

\* onoffPeriodRatio: 1, 1.75*0.5, 1.5*0.5, 1.25*0.5, 1.1*0.5, 0.5, 0.5/1.1,
\* 0.5/1.25, 0.5/1.5, 0.5/1.75, 1/4
onoffPeriodRatio ==
    << Rat(1, 1), Rat(7, 8), Rat(3, 4), Rat(5, 8), Rat(11, 20), Rat(1, 2),
       Rat(5, 11), Rat(2, 5), Rat(1, 3), Rat(2, 7), Rat(1, 4) >>

\* the assignments of a preset before its call of run_simulations, applied
\* to the module-level variables g; the rate list comes from getAppDataRate
PresetOverrides(branch, g, rates) ==
    CASE branch = "basic" ->
           [allocationPeriod |-> L(<<0, 1, 2, 3, 4>>),
            norm_offered_traffic |-> L(PresetTraffic),
            appDataRate |-> rates] @@ g
      [] branch = "onoff" ->
           [applicationType |-> S("onoff"),
            allocationPeriod |-> L(<<0, 1, 2, 3, 4>>),
            norm_offered_traffic |-> L(PresetTraffic),
            appDataRate |-> rates] @@ g
      [] branch = "onoff_stdev" ->
           [applicationType |-> S("onoff"),
            allocationPeriod |-> L(<<0, 1>>),
            onOffPeriodDeviationRatio |-> L(onOffPeriodDeviationRatio),
            onoffPeriodStdev |->
               L([i \in 1..Len(onOffPeriodDeviationRatio) |->
                    Rat(onOffPeriodDeviationRatio[i] * g.onoffPeriodMean.v.num,
                        1000 * g.onoffPeriodMean.v.den)])] @@ g
      [] branch = "spPeriodicity" ->
           [applicationType |->
               L(<<"constant", "onoff", "crazyTaxi", "fourElements">>),
            allocationPeriod |-> L(<<0, 1, 2, 3, 4>>),
            onoffPeriodStdev |-> S(Rat(g.onoffPeriodMean.v.num,
                                       100 * g.onoffPeriodMean.v.den))] @@ g
      [] branch = "onoffPeriodicity" ->
           [applicationType |-> S("onoff"),
            allocationPeriod |-> L(<<0, 2>>),
            onoffPeriodRatio |-> L(onoffPeriodRatio),
            onoffPeriodMean |->
               L([i \in 1..Len(onoffPeriodRatio) |->
                    Rat(onoffPeriodRatio[i].num * g.biDurationUs.v,
                        onoffPeriodRatio[i].den * 1000000)])] @@ g

\* the OrderedDict of run_simulations, as the list of its items
ParamCombination(g) ==
    << [key |-> "applicationType", val |-> g.applicationType],
       [key |-> "appDataRate", val |-> g.appDataRate],
       [key |-> "socketType", val |-> g.socketType],
       [key |-> "mpduAggregationSize", val |-> g.mpduAggregationSize],
       [key |-> "phyMode", val |-> g.phyMode],
       [key |-> "simulationTime", val |-> g.simulationTime],
       [key |-> "numStas", val |-> g.numStas],
       [key |-> "allocationPeriod", val |-> g.allocationPeriod],
       [key |-> "accessCbapIfAllocated", val |-> g.accessCbapIfAllocated],
       [key |-> "biDurationUs", val |-> g.biDurationUs],
       [key |-> "onoffPeriodMean", val |-> g.onoffPeriodMean],
       [key |-> "onoffPeriodStdev", val |-> g.onoffPeriodStdev],
       [key |-> "RngRun", val |-> L(Range(g.numRuns))] >>

\* param_combination[key]
PCVal(pcomb, key) ==
    pcomb[CHOOSE i \in 1..Len(pcomb) : pcomb[i].key = key].val

\* number of values of a dimension: a scalar stands for itself
DimLen(val) == IF val.list THEN Len(val.v) ELSE 1

RECURSIVE NumCombinations(_)
\* size of the cross-product of a parameter combination
NumCombinations(pcomb) ==
    IF Len(pcomb) = 0 THEN 1
    ELSE DimLen(pcomb[1].val) * NumCombinations(Tail(pcomb))

\* index (from 1) of the value that dimension k takes in combination c
\* (from 1) of the cross-product, the last dimension varying fastest
ValueIndex(pcomb, k, c) ==
    (((c - 1) \div NumCombinations(SubSeq(pcomb, k + 1, Len(pcomb))))
        % DimLen(pcomb[k].val)) + 1

DimValue(pcomb, k, c) ==
    IF pcomb[k].val.list THEN pcomb[k].val.v[ValueIndex(pcomb, k, c)]
    ELSE pcomb[k].val.v

\* the result the campaign stores for combination c: its identifier, the
\* sweep point (the combination without its RngRun), the parameters the
\* parsing functions read, and its output files
SimulationResult(pcomb, c, broken) ==
    [meta |-> [id |-> c,
               point |-> ((c - 1) \div DimLen(pcomb[Len(pcomb)].val)) + 1],
     params |-> [appDataRate |-> DimValue(pcomb, 2, c),
                 RngRun |-> DimValue(pcomb, Len(pcomb), c)],
     output |-> [stderr |-> IF c \in broken THEN <<"e", "r", "r">> ELSE <<>>,
                 metric |-> (c % 3) + 1]]

\* campaign.run_missing_simulations on an empty campaign
run_missing_simulations(pcomb, broken) ==
    [c \in 1..NumCombinations(pcomb) |-> SimulationResult(pcomb, c, broken)]

\* check_stderr: the value returned and the identifier printed
check_stderr(result) ==
    IF Len(result.output.stderr) > 0
    THEN [ret |-> << result >>, printed |-> << result.meta.id >>]
    ELSE [ret |-> <<>>, printed |-> <<>>]

\* the k-th smallest element of a set of numbers
Kth(set, k) == CHOOSE i \in set : Cardinality({ j \in set : j <= i }) = k

\* what get_results_as_numpy_array(.., check_stderr, ..) prints: the
\* identifiers check_stderr prints, result after result
Printed(results) ==
    LET at == { i \in 1..Len(results) :
                  Len(check_stderr(results[i]).printed) > 0 }
    IN  [k \in 1..Cardinality(at) |->
           check_stderr(results[Kth(at, k)]).printed[1]]

\* the attributes module sem_utils defines
SemUtilsAttrs ==
    {"MCS_PARAMS", "data_rate_bps_2_float_mbps", "output_to_arr",
     "jain_fairness", "bar_plot", "sta_data_rate_mbps"}

\* sem_utils.output_to_df(...): sem_utils defines no such function
output_to_df(result, data_filename, column_sep, numeric_cols) ==
    IF "output_to_df" \notin SemUtilsAttrs THEN Raise("AttributeError")
    ELSE Value(<<>>)

\* pkts_df is the list of the rows [SrcNodeId, TxTimestamp_ns,
\* RxTimestamp_ns, PktSize_B]; the throughput is in Mb/s
compute_avg_thr_mbps(pkts_df) ==
    IF Len(pkts_df) > 0
    THEN NpDivide(Rat(SeqSum([i \in 1..Len(pkts_df) |-> pkts_df[i].PktSize_B])
                        * 8 * 1000, 1),
                  Rat(pkts_df[Len(pkts_df)].RxTimestamp_ns
                        - pkts_df[1].TxTimestamp_ns, 1))
    ELSE Rat(0, 1)

compute_norm_aggr_thr(num_stas, result) ==
    LET pkts_df == output_to_df(result, "packetsTrace.csv", ",",
                                [type |-> "str", s |-> "all", literal |-> TRUE])
        rate    == data_rate_bps_2_float_mbps(result.params.appDataRate)
    IN  IF pkts_df.kind = "raise" THEN pkts_df
        ELSE IF rate.kind = "raise" THEN Raise(rate.exc)
        ELSE LET thr_mbps       == compute_avg_thr_mbps(pkts_df.val)
                 aggr_rate_mbps ==
                     Rat((rate.val.whole * 1000000 + rate.val.micro) * num_stas,
                         1000000)
             IN  Value(NpDivide(thr_mbps, aggr_rate_mbps))

\* a parsing function that reads the number in output file 'metric'
read_metric(result) == Value(result.output.metric)

\* mean over the runs axis of the values parsed for one sweep point
MeanOfPoint(results, parsed, point) ==
    LET at == { i \in 1..Len(results) : results[i].meta.point = point }
        vs == [i \in 1..Len(results) |-> IF i \in at THEN parsed[i].val ELSE 0]
    IN  Rat(SeqSum(vs), Cardinality(at))

\* campaign.get_results_as_xarray hands over every result of the space
ResultsOfSpace(results) == results

\* the array get_results_as_xarray returns, by its dimensions: one per key
\* of the parameter space, in the order of the keys, then 'runs' and
\* 'metrics' (one entry per output label)
XarrayDims(parameter_space, out_labels_, runs) ==
    [i \in 1..Len(parameter_space) |->
        [name |-> parameter_space[i].key,
         len  |-> DimLen(parameter_space[i].val),
         coords |-> parameter_space[i].val.v]]
    \o << [name |-> "runs", len |-> runs, coords |-> Range(runs)],
          [name |-> "metrics", len |-> Len(out_labels_), coords |-> out_labels_] >>

\* metric.squeeze(): the dimensions of length 1 are dropped
Squeeze(dims) ==
    LET Keep(d) == d.len # 1
    IN  SelectSeq(dims, Keep)

\* the length of the 'runs' axis of the data get_results_as_xarray
\* collects: the results stored for one combination of the parameter
\* space, at most runs of them.  A campaign filled by run_simulations holds
\* one result per combination, its RngRun included; a space without the
\* key RngRun is taken to find runs results per combination.
RunsStored(parameter_space, runs) ==
    IF \E i \in 1..Len(parameter_space) : parameter_space[i].key = "RngRun"
    THEN IF runs < 1 THEN runs ELSE 1
    ELSE runs

\* metric.reduce(f, 'runs'): the 'runs' axis is reduced away
ReduceRuns(dims) ==
    LET Keep(d) == d.name # "runs"
    IN  SelectSeq(dims, Keep)

\* plt.errorbar(xx, y, ...) for a y with the dimensions y_dims: x and y
\* must have the same length, and y must be one line
errorbar(xx, y_dims) ==
    LET y_len == IF Len(y_dims) = 0 THEN 1 ELSE y_dims[1].len
    IN  IF Len(xx) # y_len THEN Raise("ValueError")
        ELSE IF Len(y_dims) > 1 THEN Raise("ValueError")
        ELSE Value(None)

\* plot_line_metric: the parsing function is applied to every result of
\* the space, its first exception ends the call (parsed holds the outcome
\* of the parsing function for each result); the array cannot be built
\* (ValueError) when the data has not runs entries on its 'runs' axis; the
\* array is reduced over
\* 'runs' and squeezed; one line is drawn per value of hue_var, and the
\* figure is saved under img_dir.  g holds the module-level variables bound
\* at the call.  The outcome comes with what the figure shows (stats) and
\* the files written.
plot_line_metric(parameter_space, results, parsed, runs, xx, hue_var, xlabel, filename, g) ==
    LET failed == { i \in 1..Len(results) : parsed[i].kind = "raise" }
        Failed(e) == [kind |-> "raise", exc |-> e,
                      stats |-> <<>>, images |-> <<>>]
        metric_mean == Squeeze(ReduceRuns(
                          XarrayDims(parameter_space, << xlabel >>, runs)))
        hue_at == { i \in 1..Len(metric_mean) : metric_mean[i].name = hue_var }
        y_dims == LET Keep(d) == d.name # hue_var
                  IN  SelectSeq(metric_mean, Keep)
        made   == [sample |-> { results[i].meta.id : i \in 1..Len(results) },
                   mean |-> [p \in { results[i].meta.point :
                                       i \in 1..Len(results) } |->
                               MeanOfPoint(results, parsed, p)],
                   hue_var |-> hue_var,
                   lines |-> IF hue_at = {} THEN <<>>
                             ELSE metric_mean[CHOOSE i \in hue_at : TRUE].coords]
    IN  IF failed # {}
        THEN Failed(parsed[CHOOSE i \in failed : \A j \in failed : i <= j].exc)
        ELSE IF RunsStored(parameter_space, runs) # runs
        THEN Failed("ValueError")
        ELSE IF \A i \in 1..Len(parameter_space) :
                   parameter_space[i].key # hue_var
        THEN Failed("KeyError")
        ELSE IF hue_at = {} THEN Failed("TypeError")
        ELSE IF errorbar(xx, y_dims).kind = "raise"
        THEN Failed(errorbar(xx, y_dims).exc)
        ELSE IF "img_dir" \notin DOMAIN g
        THEN [kind |-> "raise", exc |-> "NameError",
              stats |-> made, images |-> <<>>]
        ELSE [kind |-> "value", val |-> None,
              stats |-> made, images |-> << filename >>]

\* the arguments xx and hue_var of the line plots of a preset
LineX(branch, g) ==
    CASE branch \in {"basic", "onoff"} -> g.norm_offered_traffic.v
      [] branch = "onoff_stdev" -> g.onOffPeriodDeviationRatio.v
      [] branch = "spPeriodicity" -> g.allocationPeriod.v
      [] branch = "onoffPeriodicity" -> g.onoffPeriodRatio.v

LineHue(branch) ==
    IF branch = "spPeriodicity" THEN "applicationType" ELSE "allocationPeriod"

\* the variable on the x axis of the line plots of a preset, as it appears
\* in their file names
LineVariable(branch) ==
    CASE branch \in {"basic", "onoff"} -> "aggrRate"
      [] branch = "onoff_stdev" -> "PeriodDeviationRatio"
      [] branch = "spPeriodicity" -> "allocationPeriod"
      [] branch = "onoffPeriodicity" -> "onoffPeriodMean"

\* the files of the five line plots of a preset, in the order of the calls
LineImages(branch) ==
    [i \in 1..5 |->
       << <<"thr", "avg_delay", "delay_stdev", "avg_delay_variation",
            "jain_fairness">>[i], "_vs_", LineVariable(branch), ".png" >>]

-----------------------------------------------------------------------------
(* The steps of the main script *)

InitMain ==
    /\ pc = "start"
    /\ args \in Args
    /\ MAX_PARALLEL_PROCESSES = "default"
    /\ globals = <<>>
    /\ param_combination = <<>>
    /\ db = <<>>
    /\ console = <<>>
    /\ calls = <<>>
    /\ stats = <<>>
    /\ images = <<>>
    /\ exc = "none"
    /\ fn = "none"
    /\ fin = <<>>
    /\ fout = Pending

\* A mutant: the setting is 1 whatever --cores says.
SetCores_one ==
    /\ pc = "start"
    /\ MAX_PARALLEL_PROCESSES' = 1
    /\ pc' = "campaign"
    /\ UNCHANGED <<args, globals, param_combination, db, console, calls,
                   stats, images, exc, fn, fin, fout>>

\* sem.parallelrunner.MAX_PARALLEL_PROCESSES = args.cores
SetCores ==
    /\ pc = "start"
    /\ MAX_PARALLEL_PROCESSES' = args.cores
    /\ pc' = "campaign"
    /\ UNCHANGED <<args, globals, param_combination, db, console, calls,
                   stats, images, exc, fn, fin, fout>>

\* img_dir = os.path.join(campaign_dir, 'img', args.paramSet) and
\* sem.CampaignManager.new
NewCampaign ==
    /\ pc = "campaign"
    /\ globals' = [img_dir |-> S(<<"img", args.paramSet>>)]
    /\ calls' = Append(calls, "CampaignManager.new")
    /\ pc' = "baseline"
    /\ UNCHANGED <<args, MAX_PARALLEL_PROCESSES, param_combination,
                   db, console, stats, images, exc, fn, fin, fout>>

\* the module-level variables bound before the baseline getAppDataRate
BaselineGlobals ==
    [applicationType |-> S(args.applicationType),
     socketType |-> S(args.socketType),
     mpduAggregationSize |-> S(args.mpduAggregationSize),
     phyMode |-> S(args.phyMode),
     simulationTime |-> S(args.simulationTime),
     numStas |-> S(args.numStas),
     allocationPeriod |-> L(<<0, 1>>),
     accessCbapIfAllocated |-> S(args.accessCbapIfAllocated),
     biDurationUs |-> S(args.biDurationUs),
     onoffPeriodMean |-> S(args.onoffPeriodMean),
     onoffPeriodStdev |-> S(args.onoffPeriodStdev)]

\* the baseline parameters and appDataRate = getAppDataRate(.., float)
Baseline ==
    /\ pc = "baseline"
    /\ LET r == getAppDataRate(args.phyMode, args.numStas,
                               [type |-> "float", f |-> args.normOfferedTraffic])
       IN  IF r.kind = "raise"
           THEN /\ globals' = BaselineGlobals @@ globals
                /\ exc' = r.exc
                /\ pc' = "raised"
           ELSE /\ globals' = [appDataRate |-> r.val, numRuns |-> args.numRuns]
                                 @@ BaselineGlobals @@ globals
                /\ exc' = exc
                /\ pc' = "preset"
    /\ UNCHANGED <<args, MAX_PARALLEL_PROCESSES, param_combination, db,
                   console, calls, stats, images, fn, fin, fout>>

\* the branch of args.paramSet up to its call of run_simulations
Preset ==
    /\ pc = "preset"
    /\ LET branch == PresetBranch(args.paramSet)
           rates  == IF branch \in {"basic", "onoff"}
                     THEN getAppDataRate(globals.phyMode.v, globals.numStas.v,
                                         [type |-> "list", l |-> PresetTraffic])
                     ELSE Value(globals.appDataRate)
       IN  IF branch = "else"
           THEN /\ exc' = "ValueError"
                /\ pc' = "raised"
                /\ globals' = globals
           ELSE IF rates.kind = "raise"
           THEN /\ exc' = rates.exc
                /\ pc' = "raised"
                /\ globals' = globals
           ELSE /\ globals' = PresetOverrides(branch, globals, rates.val)
                /\ exc' = exc
                /\ pc' = "run"
    /\ UNCHANGED <<args, MAX_PARALLEL_PROCESSES, param_combination, db,
                   console, calls, stats, images, fn, fin, fout>>

\* run_simulations up to the return of campaign.run_missing_simulations
\* (lines 26-42): the parameter combination is built and handed over, and
\* the call blocks while the campaign stores the results (results
\* 1..MaxBroken may come back with text on stderr).  Either it returns with
\* the results of the whole combination stored, or it raises with only the
\* first results (at most MaxStored) stored and the script ends there.
run_simulations_missing ==
    /\ pc = "run"
    /\ LET pcomb == ParamCombination(globals)
       IN  /\ param_combination' = pcomb
           /\ \E broken \in SUBSET (1..MaxBroken) :
              \E stored \in { k \in 0..NumCombinations(pcomb) :
                                 k <= MaxStored \/ k = NumCombinations(pcomb) } :
                 /\ db' = SubSeq(run_missing_simulations(pcomb, broken),
                                 1, stored)
                 /\ IF stored = NumCombinations(pcomb)
                    THEN pc' = "check" /\ exc' = exc
                    ELSE pc' = "raised" /\ exc' = "Exception"
    /\ calls' = Append(calls, "run_missing_simulations")
    /\ UNCHANGED <<args, MAX_PARALLEL_PROCESSES, globals, console, stats,
                   images, fn, fin, fout>>

\* the rest of run_simulations (lines 43-53):
\* campaign.get_results_as_numpy_array(param_combination, check_stderr,
\* numRuns) applies check_stderr to the results, and the parameter
\* combination is returned
run_simulations_check ==
    /\ pc = "check"
    /\ console' = console \o Printed(ResultsOfSpace(db))
    /\ calls' = Append(calls, "get_results_as_numpy_array")
    /\ pc' = IF fn = "none" THEN "plot1" ELSE "plot"
    /\ UNCHANGED <<args, MAX_PARALLEL_PROCESSES, globals, param_combination,
                   db, stats, images, exc, fn, fin, fout>>

\* the first plot_line_metric of the preset, on compute_norm_aggr_thr
LinePlot1 ==
    /\ pc = "plot1"
    /\ LET results == ResultsOfSpace(db)
           parsed  == [i \in 1..Len(results) |->
                         compute_norm_aggr_thr(globals.numStas.v, results[i])]
           branch  == PresetBranch(args.paramSet)
           r       == plot_line_metric(param_combination, results, parsed,
                                       globals.numRuns, LineX(branch, globals),
                                       LineHue(branch), "xlabel",
                                       LineImages(branch)[1], globals)
       IN  /\ stats' = r.stats
           /\ images' = images \o r.images
           /\ IF r.kind = "raise"
              THEN exc' = r.exc /\ pc' = "raised"
              ELSE exc' = exc /\ pc' = "plot2"
    /\ calls' = Append(calls, "get_results_as_xarray")
    /\ UNCHANGED <<args, MAX_PARALLEL_PROCESSES, globals, param_combination,
                   db, console, fn, fin, fout>>

NextMain ==
    \/ SetCores
    \/ NewCampaign
    \/ Baseline
    \/ Preset
    \/ run_simulations_missing
    \/ run_simulations_check
    \/ LinePlot1

Spec == InitMain /\ [][NextMain]_vars

\* the recognized presets
Recognized ==
    {"basic", "onoff", "onoff_stdev", "spPeriodicity", "onoffPeriodicity"}

InCalls(name) == \E i \in 1..Len(calls) : calls[i] = name

MainStarted == fn = "none" /\ pc # "none"

\* C1 as stated: with an unrecognized paramSet the script ends in a
\* ValueError, run_missing_simulations is never called and nothing is
\* plotted.
C1_Original ==
    (MainStarted /\ args.paramSet \notin Recognized) =>
        /\ ~InCalls("run_missing_simulations")
        /\ ~InCalls("get_results_as_xarray")
        /\ images = <<>>
        /\ pc \in {"start", "campaign", "baseline", "preset", "raised"}
        /\ pc = "raised" => exc = "ValueError"

\* C1 amended: with an unrecognized paramSet the script ends in an error
\* before run_missing_simulations is called and before any plot; the error
\* is the ValueError of the final else when the baseline getAppDataRate
\* succeeds, and otherwise the error of that call: KeyError for a phyMode
\* that is not in the MCS table, ZeroDivisionError for numStas = 0.
C1_UnknownPreset ==
    (MainStarted /\ args.paramSet \notin Recognized) =>
        /\ ~InCalls("run_missing_simulations")
        /\ ~InCalls("get_results_as_xarray")
        /\ images = <<>>
        /\ pc \in {"start", "campaign", "baseline", "preset", "raised"}
        /\ pc = "raised" =>
              exc = IF args.phyMode \notin DOMAIN MCS_PARAMS THEN "KeyError"
                    ELSE IF args.numStas = 0 THEN "ZeroDivisionError"
                    ELSE "ValueError"

C1_Witness ==
    /\ MainStarted
    /\ args.paramSet = "unknown"
    /\ pc = "raised"
    /\ exc = "ValueError"
    /\ calls = <<"CampaignManager.new">>

\* C2 as stated: for each recognized preset, once the campaign manager has
\* completed all runs without error, the script ends normally with all
\* seven images written (five line plots, two bar plots).
C2_AllPlots ==
    (MainStarted
       /\ args.paramSet \in Recognized
       /\ InCalls("get_results_as_numpy_array")
       /\ console = <<>>
       /\ pc \notin {"plot1"}) =>
        /\ pc = "done"
        /\ Len(images) = 7

-----------------------------------------------------------------------------
(* run_simulations followed by plot_line_metric, called with arguments of  *)
(* their own and with a parsing function that returns a number for every   *)
(* result.                                                                 *)

HarnessRates ==
    { L(<< <<"1", "b", "p", "s">> >>),
      L(<< <<"1", "b", "p", "s">>, <<"2", "b", "p", "s">> >>) }

HarnessGlobals ==
    [applicationType : {S("constant")},
     appDataRate : HarnessRates,
     socketType : {S("ns3::UdpSocketFactory")},
     mpduAggregationSize : {S(262143), S(65535)},
     phyMode : {S("DMG_MCS4")},
     simulationTime : {S(10)},
     numStas : {S(4)},
     allocationPeriod : {L(<<0>>), L(<<0, 1>>)},
     accessCbapIfAllocated : {S("true")},
     biDurationUs : {S(102400)},
     onoffPeriodMean : {S(Rat(1024, 10000))},
     onoffPeriodStdev : {S(Rat(0, 1))},
     numRuns : 1..MaxRuns]

\* img_dir is bound at module level as the main script binds it, or not
\* bound; the lines of the plot are the values of one of the two swept
\* dimensions
InitStats ==
    /\ pc = "run"
    /\ args = <<>>
    /\ MAX_PARALLEL_PROCESSES = "default"
    /\ \E g \in HarnessGlobals :
          \/ globals = g
          \/ globals = [img_dir |-> S(<<"img">>)] @@ g
    /\ param_combination = <<>>
    /\ db = <<>>
    /\ console = <<>>
    /\ calls = <<>>
    /\ stats = <<>>
    /\ images = <<>>
    /\ exc = "none"
    /\ fn = "plot_line_metric"
    /\ fin \in [hue_var : {"allocationPeriod", "appDataRate"}]
    /\ fout = Pending

\* the argument xx that goes with hue_var: one x per value of the other
\* swept dimension
HarnessX(pcomb, hue_var) ==
    IF hue_var = "allocationPeriod"
    THEN Range(DimLen(PCVal(pcomb, "appDataRate")))
    ELSE PCVal(pcomb, "allocationPeriod").v

\* plot_line_metric(campaign, param_combination, read_metric, numRuns, xx,
\*                  hue_var, 'x', 'y', 'metric.png')
PlotLineMetric ==
    /\ pc = "plot"
    /\ fn = "plot_line_metric"
    /\ LET results == ResultsOfSpace(db)
           parsed  == [i \in 1..Len(results) |-> read_metric(results[i])]
           r       == plot_line_metric(param_combination, results, parsed,
                                       globals.numRuns,
                                       HarnessX(param_combination, fin.hue_var),
                                       fin.hue_var, "x", "metric.png", globals)
       IN  /\ stats' = r.stats
           /\ images' = images \o r.images
           /\ IF r.kind = "raise"
              THEN exc' = r.exc /\ pc' = "raised"
              ELSE exc' = exc /\ pc' = "plotted"
    /\ calls' = Append(calls, "get_results_as_xarray")
    /\ UNCHANGED <<args, MAX_PARALLEL_PROCESSES, globals, param_combination,
                   db, console, fn, fin, fout>>

NextStats ==
    \/ run_simulations_missing
    \/ run_simulations_check
    \/ PlotLineMetric

SpecStats == InitStats /\ [][NextStats]_vars

\* the results of the campaign that check_stderr reports no error for
ValidAt(point) ==
    { i \in 1..Len(db) : /\ db[i].meta.point = point
                         /\ check_stderr(db[i]).ret = <<>> }

\* C3 as stated: the mean (and the confidence value, taken over the same
\* sample) of plot_line_metric is computed only over the results whose
\* captured standard error is empty: in a figure that has been written,
\* no result with text on stderr is in the sample, and the value of each
\* sweep point is the mean of its results without text on stderr.
C3_OnlyValidRuns ==
    (fn = "plot_line_metric" /\ pc = "plotted") =>
        /\ \A i \in 1..Len(db) :
              Len(db[i].output.stderr) > 0 => db[i].meta.id \notin stats.sample
        /\ \A p \in DOMAIN stats.mean :
              /\ stats.mean[p].den = Cardinality(ValidAt(p))
              /\ stats.mean[p].num =
                    SeqSum([i \in 1..Len(db) |->
                              IF i \in ValidAt(p) THEN db[i].output.metric
                              ELSE 0])

-----------------------------------------------------------------------------
(* remove_simulations.  The script never calls it (its call in             *)
(* run_simulations is commented out); it is called here on the array       *)
(* get_results_as_numpy_array(param_combination, check_stderr, numRuns)    *)
(* hands back, flattened: for each result what check_stderr returned.      *)

\* broken_results.flatten() for the results of a campaign
BrokenResults(results) ==
    [i \in 1..Len(results) |-> check_stderr(results[i]).ret]

\* the results the loop deletes: the entries that are true (a result is, an
\* empty list is not), in the order of the array, by their identifiers
Deleted(broken_results) ==
    LET at == { i \in 1..Len(broken_results) : Len(broken_results[i]) > 0 }
    IN  [k \in 1..Cardinality(at) |-> broken_results[Kth(at, k)][1].meta.id]

InitRemove ==
    /\ pc = "remove"
    /\ args = <<>>
    /\ MAX_PARALLEL_PROCESSES = "default"
    /\ globals \in HarnessGlobals
    /\ param_combination = ParamCombination(globals)
    /\ \E broken \in SUBSET (1..MaxBroken) :
          db = run_missing_simulations(param_combination, broken)
    /\ console = Printed(db)
    /\ calls = <<"run_missing_simulations", "get_results_as_numpy_array">>
    /\ stats = <<>>
    /\ images = <<>>
    /\ exc = "none"
    /\ fn = "remove_simulations"
    /\ fin = [broken_results |-> BrokenResults(db)]
    /\ fout = Pending

\* remove_simulations(broken_results): campaign.db.delete_result for every
\* broken result, then campaign.db.write_to_disk(); each removed result is
\* printed (console keeps its identifier)
remove_simulations ==
    /\ pc = "remove"
    /\ fn = "remove_simulations"
    /\ LET ids == Deleted(fin.broken_results)
       IN  /\ db' = SelectSeq(db, LAMBDA r :
                                  \A k \in 1..Len(ids) : ids[k] # r.meta.id)
           /\ console' = console \o ids
           /\ calls' = calls \o [k \in 1..Len(ids) |-> "db.delete_result"]
                             \o <<"db.write_to_disk">>
    /\ fout' = Value(None)
    /\ pc' = "removed"
    /\ UNCHANGED <<args, MAX_PARALLEL_PROCESSES, globals, param_combination,
                   stats, images, exc, fn, fin>>

SpecRemove == InitRemove /\ [][remove_simulations]_vars

\* after remove_simulations the campaign holds the results without text on
\* stderr, in their order, and no others
RemovedAreBroken ==
    (fn = "remove_simulations" /\ pc = "removed") =>
        \A i \in 1..Len(db) : Len(db[i].output.stderr) = 0

-----------------------------------------------------------------------------
(* sta_data_rate_mbps.  norm_offered_traffic is in hundredths; the rate    *)
(* returned, in Mb/s, is (mega + unit / 10^6) / den, kept as that triple.  *)

\* A mutant: the table is read before the aggregation size is asserted.
sta_data_rate_mbps_late(num_stas, phy_mode, norm_offered_traffic, mpduAggregationSize) ==
    IF phy_mode \notin DOMAIN MCS_PARAMS THEN Raise("KeyError")
    ELSE IF "app_rate" \notin DOMAIN MCS_PARAMS[phy_mode] THEN Raise("KeyError")
    ELSE IF mpduAggregationSize # 262143 THEN Raise("AssertionError")
    ELSE IF num_stas = 0 THEN Raise("ZeroDivisionError")
    ELSE Value([mega |-> norm_offered_traffic * MCS_PARAMS[phy_mode].app_rate.mega,
                unit |-> norm_offered_traffic * MCS_PARAMS[phy_mode].app_rate.unit,
                den  |-> 100 * num_stas])

sta_data_rate_mbps(num_stas, phy_mode, norm_offered_traffic, mpduAggregationSize) ==
    IF mpduAggregationSize # 262143 THEN Raise("AssertionError")
    ELSE IF phy_mode \notin DOMAIN MCS_PARAMS THEN Raise("KeyError")
    ELSE IF "app_rate" \notin DOMAIN MCS_PARAMS[phy_mode] THEN Raise("KeyError")
    ELSE IF num_stas = 0 THEN Raise("ZeroDivisionError")
    ELSE Value([mega |-> norm_offered_traffic * MCS_PARAMS[phy_mode].app_rate.mega,
                unit |-> norm_offered_traffic * MCS_PARAMS[phy_mode].app_rate.unit,
                den  |-> 100 * num_stas])

AggregationSizes == {262143, 65535, 0}

StaRateInputs ==
    [num_stas : 0..MaxStas,
     phy_mode : Modes \cup {"DMG_MCS13"},
     norm_offered_traffic : TrafficFractions,
     mpduAggregationSize : AggregationSizes]

InitStaRate ==
    /\ fn = "sta_data_rate_mbps"
    /\ fin \in StaRateInputs
    /\ fout = Pending
    /\ NoDriver

CallStaRate ==
    /\ fn = "sta_data_rate_mbps"
    /\ fout = Pending
    /\ fout' = sta_data_rate_mbps(fin.num_stas, fin.phy_mode,
                                  fin.norm_offered_traffic,
                                  fin.mpduAggregationSize)
    /\ UNCHANGED <<fn, fin>>
    /\ UNCHANGED dvars

SpecStaRate == InitStaRate /\ [][CallStaRate]_vars

StaRateCalled == fn = "sta_data_rate_mbps" /\ fout # Pending

HasAppRate(phy_mode) ==
    /\ phy_mode \in DOMAIN MCS_PARAMS
    /\ "app_rate" \in DOMAIN MCS_PARAMS[phy_mode]

\* C11: sta_data_rate_mbps raises AssertionError whenever mpduAggregationSize
\* is not 262143, whatever the other arguments (a phy_mode that is absent
\* from the table or has no app_rate included); with 262143 and a mode that
\* has an app_rate it returns norm_offered_traffic x (app_rate / 1e6) /
\* num_stas, the division by num_stas = 0 being a ZeroDivisionError.
C11_StaRate ==
    StaRateCalled =>
        /\ fin.mpduAggregationSize # 262143 =>
              fout = Raise("AssertionError")
        /\ (fin.mpduAggregationSize = 262143 /\ HasAppRate(fin.phy_mode)) =>
              IF fin.num_stas = 0
              THEN fout = Raise("ZeroDivisionError")
              ELSE /\ fout.kind = "value"
                   /\ fout.val.den = 100 * fin.num_stas
                   /\ fout.val.mega = fin.norm_offered_traffic
                                        * MCS_PARAMS[fin.phy_mode].app_rate.mega
                   /\ fout.val.unit = fin.norm_offered_traffic
                                        * MCS_PARAMS[fin.phy_mode].app_rate.unit

C11_Witness ==
    /\ StaRateCalled
    /\ fin.mpduAggregationSize = 65535
    /\ fin.phy_mode = "DMG_MCS13"
    /\ fout = Raise("AssertionError")


-----------------------------------------------------------------------------
(* Configuration errors of the main script *)

\* C12 as stated: a run whose phyMode is absent from the MCS table, or whose
\* mpduAggregationSize is not 262143, ends in an error before
\* run_missing_simulations is called.
C12_ConfigErrorFirst ==
    (MainStarted
       /\ \/ args.phyMode \notin DOMAIN MCS_PARAMS
          \/ args.mpduAggregationSize # 262143) =>
        ~InCalls("run_missing_simulations")

-----------------------------------------------------------------------------
(* The parameter combination of a preset *)

CombinationBuilt == MainStarted /\ param_combination # <<>>

\* C13: for the basic preset the parameter combination handed to the
\* campaign manager has allocationPeriod = [0,1,2,3,4], an appDataRate list
\* of exactly 11 rate strings, the i-th being the rate of the i-th offered
\* traffic point 0.01, 0.1, 0.2, ..., 1, and RngRun = [0, .., numRuns-1].
C13_BasicCombination ==
    (CombinationBuilt /\ args.paramSet = "basic") =>
        /\ InCalls("run_missing_simulations")
        /\ PCVal(param_combination, "allocationPeriod") = L(<<0, 1, 2, 3, 4>>)
        /\ PCVal(param_combination, "appDataRate").list
        /\ Len(PCVal(param_combination, "appDataRate").v) = 11
        /\ Len(PresetTraffic) = 11
        /\ \A i \in 1..11 :
              IsRateString(PCVal(param_combination, "appDataRate").v[i],
                           PresetTraffic[i],
                           MCS_PARAMS[args.phyMode].phy_rate, args.numStas)
        /\ PCVal(param_combination, "RngRun").list
        /\ Len(PCVal(param_combination, "RngRun").v) = args.numRuns
        /\ \A i \in 1..args.numRuns :
              PCVal(param_combination, "RngRun").v[i] = i - 1

C13_Witness ==
    /\ CombinationBuilt
    /\ args.paramSet = "basic"
    /\ args.numRuns = MaxRuns
    /\ args.numStas = MaxStas
    /\ InCalls("run_missing_simulations")
    /\ Len(PCVal(param_combination, "appDataRate").v) = 11
    /\ PCVal(param_combination, "RngRun").v[MaxRuns] = MaxRuns - 1

-----------------------------------------------------------------------------
(* The metric-extraction functions.  A packet trace table is the sequence  *)
(* of its rows [SrcNodeId, TxTimestamp_ns, RxTimestamp_ns, PktSize_B];     *)
(* numStas is the module-level variable the functions read.                *)

MaxPkts == 2

Inf == [inf |-> TRUE]

\* pkts_df['RxTimestamp_ns'] - pkts_df['TxTimestamp_ns']
Delays(pkts_df) ==
    [i \in 1..Len(pkts_df) |->
        pkts_df[i].RxTimestamp_ns - pkts_df[i].TxTimestamp_ns]

\* in ms: mean of the delays in ns, over 10^6
compute_avg_delay_ms(pkts_df) ==
    IF Len(pkts_df) > 0
    THEN Rat(SeqSum(Delays(pkts_df)), Len(pkts_df) * 1000000)
    ELSE NaN

\* metric(pkts_df) for the two functions handed to compute_avg_user_metric
ApplyMetric(metric, pkts_df) ==
    IF metric = "compute_avg_thr_mbps" THEN compute_avg_thr_mbps(pkts_df)
    ELSE compute_avg_delay_ms(pkts_df)

\* pkts_df[pkts_df['SrcNodeId'] == srcNodeId]
RowsOf(pkts_df, srcNodeId) ==
    LET Sel(r) == r.SrcNodeId = srcNodeId
    IN  SelectSeq(pkts_df, Sel)

\* A mutant: the access point (SrcNodeId 0) is left out.
compute_avg_user_metric_noap(pkts_df, metric, numStas) ==
    [k \in 1..numStas |-> ApplyMetric(metric, RowsOf(pkts_df, k))]

\* entry k of the sequence is element k - 1 of the Python list
compute_avg_user_metric(pkts_df, metric, numStas) ==
    [k \in 1..(numStas + 1) |-> ApplyMetric(metric, RowsOf(pkts_df, k - 1))]

compute_user_thr(result, numStas) ==
    LET pkts_df == output_to_df(result, "packetsTrace.csv", ",",
                                [type |-> "str", s |-> "all", literal |-> TRUE])
    IN  IF pkts_df.kind = "raise" THEN pkts_df
        ELSE Value(compute_avg_user_metric(pkts_df.val, "compute_avg_thr_mbps",
                                           numStas))

compute_user_avg_delay(result, numStas) ==
    LET pkts_df == output_to_df(result, "packetsTrace.csv", ",",
                                [type |-> "str", s |-> "all", literal |-> TRUE])
    IN  IF pkts_df.kind = "raise" THEN pkts_df
        ELSE Value(compute_avg_user_metric(pkts_df.val, "compute_avg_delay_ms",
                                           numStas))

compute_avg_aggr_delay_ms(result) ==
    LET pkts_df == output_to_df(result, "packetsTrace.csv", ",",
                                [type |-> "str", s |-> "all", literal |-> TRUE])
    IN  IF pkts_df.kind = "raise" THEN pkts_df
        ELSE Value(compute_avg_delay_ms(pkts_df.val))

\* Series.std() in ns (one degree of freedom less than the length): the
\* square root of n*sum(x^2) - sum(x)^2 over n*(n-1), NaN for one value;
\* the root is not taken, the factor 1e3/1e9 is kept beside it
PdStd(xx) ==
    IF Len(xx) < 2 THEN NaN
    ELSE [sqrt_of |-> Rat(Len(xx) * SeqSum(NpSquares(xx))
                            - SeqSum(xx) * SeqSum(xx),
                          Len(xx) * (Len(xx) - 1)),
          over    |-> 1000000]

compute_std_aggr_delay_ms(result) ==
    LET pkts_df == output_to_df(result, "packetsTrace.csv", ",",
                                [type |-> "str", s |-> "all", literal |-> TRUE])
    IN  IF pkts_df.kind = "raise" THEN pkts_df
        ELSE IF Len(pkts_df.val) > 0 THEN Value(PdStd(Delays(pkts_df.val)))
        ELSE Value(NaN)

Abs(x) == IF x < 0 THEN -x ELSE x

\* np.abs(np.diff(xx))
AbsDiff(xx) == [i \in 1..(Len(xx) - 1) |-> Abs(xx[i + 1] - xx[i])]

compute_avg_delay_variation_ms(result) ==
    LET pkts_df == output_to_df(result, "packetsTrace.csv", ",",
                                [type |-> "str", s |-> "all", literal |-> TRUE])
    IN  IF pkts_df.kind = "raise" THEN pkts_df
        ELSE IF Len(pkts_df.val) > 1
        THEN Value(Rat(SeqSum(AbsDiff(Delays(pkts_df.val))),
                       (Len(pkts_df.val) - 1) * 1000000))
        ELSE Value(NaN)

RECURSIVE DenProduct(_)
DenProduct(xx) ==
    IF Len(xx) = 0 THEN 1 ELSE xx[1].den * DenProduct(Tail(xx))

\* jain_fairness of a list of rationals: the index does not change when all
\* values are multiplied by their common denominator; a NaN or inf among
\* the values makes it NaN
RatJain(xx) ==
    IF \E i \in 1..Len(xx) : xx[i] = NaN \/ xx[i] = Inf THEN NaN
    ELSE jain_fairness([i \in 1..Len(xx) |->
                          xx[i].num * (DenProduct(xx) \div xx[i].den)])

compute_jain_fairness(result, numStas) ==
    LET pkts_df == output_to_df(result, "packetsTrace.csv", ",",
                                [type |-> "str", s |-> "all", literal |-> TRUE])
    IN  IF pkts_df.kind = "raise" THEN pkts_df
        ELSE Value(RatJain(Tail(compute_avg_user_metric(
                                  pkts_df.val, "compute_avg_thr_mbps", numStas))))

MetricNames ==
    {"compute_norm_aggr_thr", "compute_user_thr", "compute_user_avg_delay",
     "compute_avg_aggr_delay_ms", "compute_std_aggr_delay_ms",
     "compute_avg_delay_variation_ms", "compute_jain_fairness"}

\* the call result_parsing_function(result) of the campaign manager
MetricCall(name, numStas, result) ==
    CASE name = "compute_norm_aggr_thr" -> compute_norm_aggr_thr(numStas, result)
      [] name = "compute_user_thr" -> compute_user_thr(result, numStas)
      [] name = "compute_user_avg_delay" -> compute_user_avg_delay(result, numStas)
      [] name = "compute_avg_aggr_delay_ms" -> compute_avg_aggr_delay_ms(result)
      [] name = "compute_std_aggr_delay_ms" -> compute_std_aggr_delay_ms(result)
      [] name = "compute_avg_delay_variation_ms" ->
           compute_avg_delay_variation_ms(result)
      [] name = "compute_jain_fairness" -> compute_jain_fairness(result, numStas)

\* results of a finished simulation: a trace file of a header and 0..MaxRows
\* data rows, nothing on stderr
MetricResults ==
    { [params |-> [appDataRate |-> <<"1", "M", "b", "p", "s">>],
       output |-> [f \in {"stderr", "packetsTrace.csv"} |->
                      IF f = "stderr" THEN <<>> ELSE TableText(t)]] :
      t \in Tables }

InitMetric ==
    /\ fn = "metric"
    /\ fin \in [name : MetricNames, numStas : 1..MaxStas, result : MetricResults]
    /\ fout = Pending
    /\ NoDriver

CallMetric ==
    /\ fn = "metric"
    /\ fout = Pending
    /\ fout' = MetricCall(fin.name, fin.numStas, fin.result)
    /\ UNCHANGED <<fn, fin>>
    /\ UNCHANGED dvars

SpecMetric == InitMetric /\ [][CallMetric]_vars

\* number of lines after the header line of the trace file of a result
DataRows(result) ==
    Len(Split(RStrip(result.output["packetsTrace.csv"], NL), NL)) - 1

IsZero(x) == DOMAIN x = {"num", "den"} /\ x.num = 0 /\ x.den # 0

\* C14 as stated: on a result whose packet trace has no data row every
\* metric-extraction function returns without raising: 0 for the aggregate
\* and for each per-node throughput, NaN for the average delay, its standard
\* deviation, the delay variation and each per-node delay; the delay
\* variation is NaN for a trace of one row as well.
C14_Fallbacks ==
    (fn = "metric" /\ fout # Pending) =>
        /\ DataRows(fin.result) = 0 =>
              /\ fout.kind = "value"
              /\ fin.name = "compute_norm_aggr_thr" => IsZero(fout.val)
              /\ fin.name = "compute_user_thr" =>
                    /\ Len(fout.val) = fin.numStas + 1
                    /\ \A k \in 1..Len(fout.val) : IsZero(fout.val[k])
              /\ fin.name = "compute_user_avg_delay" =>
                    /\ Len(fout.val) = fin.numStas + 1
                    /\ \A k \in 1..Len(fout.val) : fout.val[k] = NaN
              /\ fin.name \in {"compute_avg_aggr_delay_ms",
                               "compute_std_aggr_delay_ms",
                               "compute_avg_delay_variation_ms"} =>
                    fout.val = NaN
        /\ (DataRows(fin.result) = 1
              /\ fin.name = "compute_avg_delay_variation_ms") =>
              fout = Value(NaN)

-----------------------------------------------------------------------------
(* compute_avg_user_metric on a packet trace table, and the labels of the  *)
(* bar plots                                                               *)

MaxSrc == 2

PacketRows ==
    [SrcNodeId : 0..MaxSrc,
     TxTimestamp_ns : {0, 1000},
     RxTimestamp_ns : {2000, 5000},
     PktSize_B : {100}]

PacketTables == UNION { [1..n -> PacketRows] : n \in 0..MaxPkts }

\* ["AP"] + ["STA {}".format(i + 1) for i in range(numStas[0])], numStas
\* being the value that param_combination holds under 'numStas'
out_labels(numStas) ==
    IF ~numStas.list THEN Raise("TypeError")
    ELSE IF Len(numStas.v) = 0 THEN Raise("IndexError")
    ELSE Value(<< <<"A", "P">> >>
               \o [i \in 1..numStas.v[1] |-> <<"S", "T", "A", " ">> \o DecStr(i)])

InitUserMetric ==
    /\ fn = "compute_avg_user_metric"
    /\ fin \in [pkts_df : PacketTables,
                metric : {"compute_avg_thr_mbps", "compute_avg_delay_ms"},
                numStas : 0..MaxStas]
    /\ fout = Pending
    /\ NoDriver

CallUserMetric ==
    /\ fn = "compute_avg_user_metric"
    /\ fout = Pending
    /\ fout' = Value(compute_avg_user_metric(fin.pkts_df, fin.metric, fin.numStas))
    /\ UNCHANGED <<fn, fin>>
    /\ UNCHANGED dvars

SpecUserMetric == InitUserMetric /\ [][CallUserMetric]_vars

\* positions of the packets of node i in the table
PacketsOf(pkts_df, i) == { j \in 1..Len(pkts_df) : pkts_df[j].SrcNodeId = i }

Min(s) == CHOOSE x \in s : \A y \in s : x <= y

Max(s) == CHOOSE x \in s : \A y \in s : x >= y

\* m is the metric over the packets of node i: the fallback when there are
\* none, else the bits received over the time from the first transmission
\* to the last reception, or the mean of reception minus transmission
IsMetricOf(m, metric, pkts_df, i) ==
    LET P == PacketsOf(pkts_df, i)
        bytes == SeqSum([j \in 1..Len(pkts_df) |->
                           IF j \in P THEN pkts_df[j].PktSize_B ELSE 0])
        delay == SeqSum([j \in 1..Len(pkts_df) |->
                           IF j \in P THEN pkts_df[j].RxTimestamp_ns
                                             - pkts_df[j].TxTimestamp_ns
                           ELSE 0])
    IN  IF metric = "compute_avg_thr_mbps"
        THEN IF P = {} THEN IsZero(m)
             ELSE /\ m.num = bytes * 8 * 1000
                  /\ m.den = pkts_df[Max(P)].RxTimestamp_ns
                               - pkts_df[Min(P)].TxTimestamp_ns
        ELSE IF P = {} THEN m = NaN
             ELSE /\ m.num = delay
                  /\ m.den = Cardinality(P) * 1000000

UserMetricReturned == fn = "compute_avg_user_metric" /\ fout # Pending

\* C15: for every packet trace table, whatever source nodes occur in it,
\* the list compute_avg_user_metric returns has numStas + 1 entries, entry i
\* (from 0) being the metric over exactly the packets whose SrcNodeId is i,
\* and the bar plots have as many labels: AP, STA 1, .., STA numStas.
C15_PerNodeList ==
    UserMetricReturned =>
        /\ fout.kind = "value"
        /\ Len(fout.val) = fin.numStas + 1
        /\ \A i \in 0..fin.numStas :
              IsMetricOf(fout.val[i + 1], fin.metric, fin.pkts_df, i)
        /\ out_labels(L(<< fin.numStas >>)).kind = "value"
        /\ Len(out_labels(L(<< fin.numStas >>)).val) = Len(fout.val)
        /\ out_labels(L(<< fin.numStas >>)).val[1] = <<"A", "P">>
        /\ \A i \in 1..fin.numStas :
              out_labels(L(<< fin.numStas >>)).val[i + 1]
                 = <<"S", "T", "A", " ">> \o DecStr(i)

C15_Witness ==
    /\ UserMetricReturned
    /\ fin.numStas = 1
    /\ Len(fin.pkts_df) = MaxPkts
    /\ fin.pkts_df[1].SrcNodeId = MaxSrc
    /\ fin.pkts_df[2].SrcNodeId = 1
    /\ fin.metric = "compute_avg_delay_ms"
    /\ Len(fout.val) = 2
    /\ fout.val[1] = NaN
    /\ fout.val[2] # NaN

-----------------------------------------------------------------------------
(* sem_utils.bar_plot.  The axis is the list of the bars drawn on it and   *)
(* its legend; data is the list of the items (name, values) of the dict,   *)
(* values being an array: [dims, item] with dims empty and the number     *)
(* item, or [dims, v] with one dimension and the sequence v of numbers.    *)
(* total_width is in tenths, positions and widths are exact rationals.     *)

MaxGroups == 2

MaxBars == 2

\* a local variable that has not been assigned
Unbound == [unbound |-> TRUE]

\* plt.rcParams['axes.prop_cycle'].by_key()['color']: ten colours
DefaultColors == [c \in 1..10 |-> <<"C", c - 1>>]

\* A mutant: no array counts as zero-dimensional.
IsZeroDim_never(values) == FALSE

\* len(values.dims) == 0
IsZeroDim(values) == Len(values.dims) = 0

\* the calls ax.bar(x + x_offset, y, [yerr,] width, color, label) of group i
\* (from 0) of n_bars; zip stops at the shorter of values and yerr
GroupBars(i, n_bars, name, values, yerr, colors, total_width, single_width) ==
    LET m == IF yerr = None THEN Len(values.v)
             ELSE IF Len(yerr.v) < Len(values.v) THEN Len(yerr.v)
             ELSE Len(values.v)
    IN  [k \in 1..m |->
           [x |-> Rat((k - 1) * 10 * 2 * n_bars
                        + total_width * (2 * i - n_bars + 1),
                      10 * 2 * n_bars),
            y |-> values.v[k],
            yerr |-> IF yerr = None THEN None ELSE yerr.v[k],
            width |-> Rat(total_width * single_width, 10 * n_bars),
            color |-> colors[(i % Len(colors)) + 1],
            label |-> name]]

\* data_yerr[name] for the dict data_yerr, given as the list of its items
HasKey(data_yerr, name) ==
    \E j \in 1..Len(data_yerr.items) : data_yerr.items[j].name = name

GetItem(data_yerr, name) ==
    data_yerr.items[CHOOSE j \in 1..Len(data_yerr.items) :
                       data_yerr.items[j].name = name].values

RECURSIVE BarLoop(_, _, _, _, _, _, _, _)
\* the for loop from group i (from 0) on; bars is the list of legend handles,
\* bar the last value bound to the variable bar.  With error bars,
\* zip(values, data_yerr[name]) is built before the first bar of the group:
\* a missing name is a KeyError, an array without dimensions a TypeError.
BarLoop(ax, bars, bar, i, data, data_yerr, colors, widths) ==
    IF i >= Len(data)
    THEN [kind |-> "fallthrough", ax |-> ax, bars |-> bars]
    ELSE LET name   == data[i + 1].name
             values == data[i + 1].values
             yerr   == IF data_yerr = None THEN None
                       ELSE GetItem(data_yerr, name)
             drawn  == GroupBars(i, Len(data), name, values, yerr,
                                 colors, widths.total_width, widths.single_width)
             last   == IF Len(drawn) > 0 THEN drawn[Len(drawn)] ELSE bar
         IN  IF IsZeroDim(values)
             THEN [kind |-> "value", val |-> None, ax |-> ax]
             ELSE IF data_yerr # None /\ ~HasKey(data_yerr, name)
             THEN [kind |-> "raise", exc |-> "KeyError", ax |-> ax]
             ELSE IF Len(values.dims) = 0
             THEN [kind |-> "raise", exc |-> "TypeError", ax |-> ax]
             ELSE IF data_yerr # None /\ Len(yerr.dims) = 0
             THEN [kind |-> "raise", exc |-> "TypeError", ax |-> ax]
             ELSE IF last = Unbound
             THEN [kind |-> "raise", exc |-> "UnboundLocalError", ax |-> ax]
             ELSE BarLoop([ax EXCEPT !.bars = ax.bars \o drawn],
                          Append(bars, last), last, i + 1,
                          data, data_yerr, colors, widths)

bar_plot(ax, data, data_yerr, colors, total_width, single_width, legend) ==
    LET cols == IF colors = None THEN DefaultColors ELSE colors
    IN  IF Len(data) = 0
        THEN [kind |-> "raise", exc |-> "ZeroDivisionError", ax |-> ax]
        ELSE LET r == BarLoop(ax, <<>>, Unbound, 0, data, data_yerr, cols,
                              [total_width |-> total_width,
                               single_width |-> single_width])
             IN  IF r.kind # "fallthrough" THEN r
                 ELSE [kind |-> "value", val |-> None,
                       ax |-> IF legend
                              THEN [r.ax EXCEPT !.legend =
                                      [handles |-> r.bars,
                                       labels |-> [j \in 1..Len(data) |->
                                                     data[j].name]]]
                              ELSE r.ax]

BarValues ==
    { [dims |-> <<>>, item |-> y] : y \in 1..2 }
    \cup { [dims |-> <<"metrics">>, v |-> s] :
             s \in UNION { [1..m -> 1..2] : m \in 0..MaxBars } }

GroupNames == [j \in 1..(MaxGroups + 1) |-> <<"g", j>>]

BarData ==
    UNION { { [j \in 1..n |-> [name |-> GroupNames[j], values |-> vs[j]]] :
                vs \in [1..n -> BarValues] } : n \in 0..MaxGroups }

\* error bars for a data set, as the items of the dict: for every group an
\* array of the shape of its values, holding the position of the group
YerrOf(data) ==
  [items |->
    [j \in 1..Len(data) |->
       [name |-> data[j].name,
        values |-> IF Len(data[j].values.dims) = 0
                   THEN [dims |-> <<>>, item |-> j]
                   ELSE [dims |-> data[j].values.dims,
                         v |-> [k \in 1..Len(data[j].values.v) |-> j]]]]]

Reversed(items) == [j \in 1..Len(items) |-> items[Len(items) + 1 - j]]

\* the values of data_yerr a call is made with: None, the error bars of
\* every group in the order of data, the same in the opposite order, and
\* the error bars of the first group only
YerrInputs(data) ==
    { None, YerrOf(data),
      [items |-> Reversed(YerrOf(data).items)],
      [items |-> IF Len(data) = 0 THEN <<>>
                 ELSE SubSeq(YerrOf(data).items, 1, 1)] }

NewAxis == [bars |-> <<>>, legend |-> None]

InitBarPlot ==
    /\ fn = "bar_plot"
    /\ fin \in UNION { { [data |-> d, data_yerr |-> y, legend |-> l] :
                           y \in YerrInputs(d), l \in BOOLEAN } :
                         d \in BarData }
    /\ fout = Pending
    /\ NoDriver

CallBarPlot ==
    /\ fn = "bar_plot"
    /\ fout = Pending
    /\ fout' = bar_plot(NewAxis, fin.data, fin.data_yerr, None, 8, 1,
                        fin.legend)
    /\ UNCHANGED <<fn, fin>>
    /\ UNCHANGED dvars

SpecBarPlot == InitBarPlot /\ [][CallBarPlot]_vars

BarPlotCalled == fn = "bar_plot" /\ fout # Pending

ZeroDimGroups(data) ==
    { j \in 1..Len(data) : Len(data[j].values.dims) = 0 }

\* C16 as stated: when a group has zero-dimensional values, at whichever
\* position among the groups, bar_plot returns without error and neither a
\* bar nor a legend has been drawn on the axis.
C16_Original ==
    (BarPlotCalled /\ ZeroDimGroups(fin.data) # {}) =>
        /\ fout.kind = "value"
        /\ fout.ax.bars = <<>>
        /\ fout.ax.legend = None

\* the call is made without error bars or with error bars for every group
YerrForEveryGroup ==
    \/ fin.data_yerr = None
    \/ \A j \in 1..Len(fin.data) : HasKey(fin.data_yerr, fin.data[j].name)

\* C16 amended: called without error bars or with error bars for every
\* group, bar_plot returns at the first group whose values are
\* zero-dimensional.  Unless the first group is an empty one-dimensional
\* sequence (an error), it raises no error and draws no legend, and the
\* axis holds the bars of the groups before that group and no others; when
\* the zero-dimensional group is the first one nothing has been drawn.
C16_ZeroDimReturn ==
    (BarPlotCalled /\ ZeroDimGroups(fin.data) # {} /\ YerrForEveryGroup) =>
        LET k == Min(ZeroDimGroups(fin.data))
        IN  IF k > 1 /\ Len(fin.data[1].values.v) = 0
            THEN fout.kind = "raise" /\ fout.ax = NewAxis
            ELSE /\ fout.kind = "value"
                 /\ fout.ax.legend = None
                 /\ Len(fout.ax.bars)
                      = SeqSum([j \in 1..(k - 1) |-> Len(fin.data[j].values.v)])
                 /\ \A b \in 1..Len(fout.ax.bars) :
                       \E j \in 1..(k - 1) :
                          fout.ax.bars[b].label = fin.data[j].name
                 /\ k = 1 => fout.ax = NewAxis

C16_Witness ==
    /\ BarPlotCalled
    /\ Len(fin.data) = 1
    /\ fin.data[1].values.dims = <<>>
    /\ fin.legend
    /\ fout = [kind |-> "value", val |-> None, ax |-> NewAxis]

-----------------------------------------------------------------------------
(* The statements of a preset between its last line plot and its first bar *)
(* plot: the narrowing of one dimension of the parameter combination.  No  *)
(* run of the script gets there (the first line plot ends in the           *)
(* AttributeError of output_to_df), so they are operators that no action   *)
(* of the main script applies.                                             *)

\* the key a preset narrows
NarrowKey(branch) ==
    CASE branch = "onoff" -> "appDataRate"
      [] branch = "onoff_stdev" -> "onoffPeriodStdev"
      [] branch = "spPeriodicity" -> "allocationPeriod"
      [] branch = "onoffPeriodicity" -> "onoffPeriodMean"
      [] OTHER -> "none"

\* the position (from 1) kept of a list of n values: [0] or [-1]
NarrowIndex(branch, n) == IF branch = "spPeriodicity" THEN 1 ELSE n

\* bar_plots_params = param_combination;
\* bar_plots_params[key] = [bar_plots_params[key][0 or -1]]:
\* both names are the same OrderedDict, the key exists already
Narrow(branch, pcomb) ==
    IF branch = "basic" THEN pcomb
    ELSE [i \in 1..Len(pcomb) |->
            IF pcomb[i].key = NarrowKey(branch)
            THEN [key |-> pcomb[i].key,
                  val |-> L(<< pcomb[i].val.v[
                                 NarrowIndex(branch, Len(pcomb[i].val.v))] >>)]
            ELSE pcomb[i]]

\* run_simulations has returned its parameter combination to the script
Returned == MainStarted /\ InCalls("get_results_as_numpy_array")

\* the script has ended, normally or in an exception
Ended == pc \in {"done", "raised"}

\* C17 as stated: the parameter combination that run_simulations returned
\* is changed by nothing but the narrowing of the preset, which takes place
\* after the line plots: at every moment it is the combination returned or
\* that combination with the one dimension of the preset replaced by a
\* one-element list (onoff: appDataRate, its last value; onoff_stdev:
\* onoffPeriodStdev, last; spPeriodicity: allocationPeriod, first;
\* onoffPeriodicity: onoffPeriodMean, last; basic: nothing), and once the
\* script has ended it is the narrowed one.
C17_OnlyNarrowing ==
    Returned =>
        LET returned == ParamCombination(globals)
            narrowed == Narrow(PresetBranch(args.paramSet), returned)
        IN  /\ param_combination \in {returned, narrowed}
            /\ Ended => param_combination = narrowed

\* C18 as stated: each preset checks the station-count dimension of the
\* parameter combination after its line plots; it holds exactly one value
\* (the script never puts several), so the check passes and the bar plots
\* go on: the script does not end in an exception and ends with the two
\* bar plots written after the five line plots.
C18_StationCountCheck ==
    (Returned /\ Ended /\ DimLen(PCVal(param_combination, "numStas")) = 1) =>
        /\ exc = "none"
        /\ Len(images) = 7

-----------------------------------------------------------------------------
(* plot_bar_metric.  The array get_results_as_xarray returns is modelled   *)
(* by its dimensions: one per key of the parameter space, in the order of  *)
(* the keys, then 'runs' (the axis plot_bar_metric reduces over, of length *)
(* runs) and 'metrics' (one entry per output label).                       *)

\* list.remove(x): the list without its first x
Remove(list, x) ==
    LET k == CHOOSE i \in 1..Len(list) :
                list[i] = x /\ \A j \in 1..(i - 1) : list[j] # x
    IN  SubSeq(list, 1, k - 1) \o SubSeq(list, k + 1, Len(list))

\* the element of the array get_results_as_xarray returns, for the value x
\* of the group variable and the output label: what the parsing function
\* returned for that label on the one result of x
MetricAt(x, label) == [of |-> x, metric |-> label]

\* np.std over a 'runs' axis of length 1, times 1.96 / np.sqrt(1)
Ci95OfOneRun(x, label) == 0

\* a dict handed to bar_plot, as the list of its items: one group
\* "group_var=x" per value x of the group variable, its values the one-
\* dimensional array over 'metrics' of the means (metric_dict) or of the
\* confidence values (metric_ci95_dict)
MetricDict(group_var, groups, out_labels_, stat) ==
    [i \in 1..Len(groups) |->
       [name |-> <<group_var, "=", groups[i]>>,
        values |-> [dims |-> <<"metrics">>,
                    v |-> [j \in 1..Len(out_labels_) |->
                             IF stat = "mean"
                             THEN MetricAt(groups[i], out_labels_[j])
                             ELSE Ci95OfOneRun(groups[i], out_labels_[j])]]]]

\* plot_bar_metric with a parsing function that returns one number per
\* label; g holds the module-level variables bound at the call.  The array
\* cannot be built (ValueError) when the data has not runs entries on its
\* 'runs' axis.  The
\* outcome comes with the calls made, the group variable and the axis
\* drawn (stats) and the files written.
plot_bar_metric(parameter_space, out_labels_, runs, filename, g) ==
    LET dims     == XarrayDims(parameter_space, out_labels_, runs)
        squeezed == Squeeze(dims)
        names    == [i \in 1..Len(squeezed) |-> squeezed[i].name]
        Failed(e) == [kind |-> "raise", exc |-> e,
                      calls |-> <<"get_results_as_xarray">>,
                      stats |-> <<>>, images |-> <<>>]
    IN  IF RunsStored(parameter_space, runs) # runs
        THEN Failed("ValueError")
        ELSE IF \A i \in 1..Len(names) : names[i] # "metrics"
        THEN Failed("ValueError")
        ELSE LET metric_dims == Remove(names, "metrics")
             IN  IF Len(metric_dims) # 1 THEN Failed("AssertionError")
                 ELSE IF metric_dims[1] = "runs" THEN Failed("ValueError")
                 ELSE
    LET group_var == metric_dims[1]
        groups    == (CHOOSE d \in { squeezed[i] : i \in 1..Len(squeezed) } :
                        d.name = group_var).coords
        drawn     == bar_plot(NewAxis,
                              MetricDict(group_var, groups, out_labels_, "mean"),
                              [items |-> MetricDict(group_var, groups,
                                                    out_labels_, "ci95")],
                              None, 8, 1, TRUE)
        made      == [group_var |-> group_var, groups |-> groups,
                      ax |-> drawn.ax]
    IN  IF drawn.kind = "raise"
        THEN [kind |-> "raise", exc |-> drawn.exc,
              calls |-> <<"get_results_as_xarray">>,
              stats |-> made, images |-> <<>>]
        ELSE IF "img_dir" \notin DOMAIN g
        THEN [kind |-> "raise", exc |-> "NameError",
              calls |-> <<"get_results_as_xarray">>,
              stats |-> made, images |-> <<>>]
        ELSE [kind |-> "value", val |-> None,
              calls |-> <<"get_results_as_xarray">>,
              stats |-> made, images |-> << filename >>]

BarSpaces ==
    { << [key |-> "applicationType", val |-> L(a)],
         [key |-> "appDataRate", val |-> L(r)],
         [key |-> "numStas", val |-> L(<< n >>)],
         [key |-> "allocationPeriod", val |-> L(p)],
         [key |-> "RngRun", val |-> L(Range(runs))] >> :
      a \in { <<"onoff">>, <<"constant", "onoff">> },
      r \in { << <<"1", "b", "p", "s">> >>,
              << <<"1", "b", "p", "s">>, <<"2", "b", "p", "s">> >> },
      n \in 1..MaxStas,
      p \in { <<0>>, <<0, 1>> },
      runs \in 1..MaxRuns }

\* plot_bar_metric is called on its own, with img_dir bound at module level
\* as the main script binds it, or not bound
InitBarMetric ==
    /\ fn = "plot_bar_metric"
    /\ fin \in { [parameter_space |-> s,
                  out_labels |-> out_labels(PCVal(s, "numStas")).val,
                  runs |-> Len(PCVal(s, "RngRun").v),
                  filename |-> <<"bar.png">>] : s \in BarSpaces }
    /\ fout = Pending
    /\ pc = "none"
    /\ args = <<>>
    /\ MAX_PARALLEL_PROCESSES = "default"
    /\ \/ globals = <<>>
       \/ globals = [img_dir |-> S(<<"img">>)]
    /\ param_combination = <<>>
    /\ db = <<>>
    /\ console = <<>>
    /\ calls = <<>>
    /\ stats = <<>>
    /\ images = <<>>
    /\ exc = "none"

CallBarMetric ==
    /\ fn = "plot_bar_metric"
    /\ fout = Pending
    /\ LET r == plot_bar_metric(fin.parameter_space, fin.out_labels, fin.runs,
                                fin.filename, globals)
       IN  /\ fout' = IF r.kind = "raise" THEN Raise(r.exc) ELSE Value(r.val)
           /\ calls' = calls \o r.calls
           /\ stats' = r.stats
           /\ images' = images \o r.images
    /\ UNCHANGED <<fn, fin, pc, args, MAX_PARALLEL_PROCESSES, globals,
                   param_combination, db, console, exc>>

SpecBarMetric == InitBarMetric /\ [][CallBarMetric]_vars

\* the keys of the parameter space, RngRun aside, that hold several values
SweepDims(parameter_space) ==
    { parameter_space[i].key : i \in { j \in 1..Len(parameter_space) :
          /\ parameter_space[j].key # "RngRun"
          /\ DimLen(parameter_space[j].val) > 1 } }

\* C19 as stated: in plot_bar_metric the assertion passes exactly when one
\* dimension of the parameter space other than the runs holds several
\* values, whatever numRuns is; the group variable is then that dimension,
\* never the runs axis or the metrics axis; otherwise the assertion fails.
C19_GroupVariable ==
    (fn = "plot_bar_metric" /\ fout # Pending) =>
        IF Cardinality(SweepDims(fin.parameter_space)) = 1
        THEN /\ stats # <<>>
             /\ stats.group_var \in SweepDims(fin.parameter_space)
        ELSE fout = Raise("AssertionError")

-----------------------------------------------------------------------------
(* Order of the calls of the main script *)

Retrievals == {"get_results_as_numpy_array", "get_results_as_xarray"}

\* C20: in every run of the script sem.parallelrunner.MAX_PARALLEL_PROCESSES
\* has been set from --cores before run_missing_simulations is called, and
\* no result is retrieved and nothing is plotted before
\* run_missing_simulations has returned with the results of the whole
\* parameter combination.
C20_CoresThenRunThenPlots ==
    MainStarted =>
        /\ (pc = "run" \/ InCalls("run_missing_simulations")) =>
              MAX_PARALLEL_PROCESSES = args.cores
        /\ \A i \in 1..Len(calls) :
              calls[i] \in Retrievals =>
                 /\ \E j \in 1..(i - 1) : calls[j] = "run_missing_simulations"
                 /\ Len(db) = NumCombinations(param_combination)
        /\ (images # <<>> \/ stats # <<>> \/ pc \in {"plot1", "plot2", "done"}) =>
              /\ InCalls("run_missing_simulations")
              /\ Len(db) = NumCombinations(param_combination)

C20_Witness ==
    /\ MainStarted
    /\ args.cores = 4
    /\ calls = <<"CampaignManager.new", "run_missing_simulations",
                 "get_results_as_numpy_array", "get_results_as_xarray">>
    /\ MAX_PARALLEL_PROCESSES = 4
    /\ Len(db) = NumCombinations(param_combination)
    /\ Len(db) > 1

-----------------------------------------------------------------------------
(* The rate strings of getAppDataRate, read back by                        *)
(* data_rate_bps_2_float_mbps as compute_norm_aggr_thr does with           *)
(* result['params']['appDataRate'].                                        *)

\* the fractions (in hundredths) of an argument norm_offered_traffic
FractionsOf(norm_offered_traffic) ==
    IF norm_offered_traffic.type = "list" THEN norm_offered_traffic.l
    ELSE << norm_offered_traffic.f >>

\* getAppDataRate, then data_rate_bps_2_float_mbps on each of its strings
RateRoundTrip(phy_mode, num_stas, norm_offered_traffic) ==
    LET rates == getAppDataRate(phy_mode, num_stas, norm_offered_traffic)
    IN  IF rates.kind = "raise" THEN rates
        ELSE Value([rates  |-> rates.val.v,
                    parsed |-> [i \in 1..Len(rates.val.v) |->
                                  data_rate_bps_2_float_mbps(rates.val.v[i])]])

InitRoundTrip ==
    /\ fn = "rate_round_trip"
    /\ fin \in [phy_mode : Modes,
                num_stas : 1..MaxStas,
                norm_offered_traffic :
                    { t \in TrafficInputs : t.type \in {"list", "float"} }]
    /\ fout = Pending
    /\ NoDriver

CallRoundTrip ==
    /\ fn = "rate_round_trip"
    /\ fout = Pending
    /\ fout' = RateRoundTrip(fin.phy_mode, fin.num_stas, fin.norm_offered_traffic)
    /\ UNCHANGED <<fn, fin>>
    /\ UNCHANGED dvars

SpecRoundTrip == InitRoundTrip /\ [][CallRoundTrip]_vars

\* mbps = [whole, micro] is a whole number of bit/s, the one nearest to
\* k/100 * phy_rate / n, expressed in Mb/s (hi is that number without its
\* last two digits, lo the last two digits)
IsNearestBpsInMbps(mbps, k, phy, n) ==
    LET hi == mbps.whole * 10000 + (mbps.micro \div 100)
        lo == mbps.micro % 100
        a  == (k * phy) \div n
        r  == (k * phy) % n
        d  == 100 * n * (hi - a) + n * lo - 100 * r
    IN  /\ mbps.micro \in 0..999999
        /\ mbps.whole >= 0
        /\ 2 * d <= n
        /\ -2 * d <= n

\* C21: for every mode of the MCS table, every station count n >= 1 and
\* every non-negative fraction f, scalar or element of a list, the rate
\* string getAppDataRate produces is accepted by data_rate_bps_2_float_mbps
\* (no ValueError) and parses to the whole number of bit/s nearest to
\* f x phy_rate(mode) / n, expressed in Mb/s.
C21_RatesParseBack ==
    (fn = "rate_round_trip" /\ fout # Pending) =>
        /\ fout.kind = "value"
        /\ Len(fout.val.parsed) = Len(FractionsOf(fin.norm_offered_traffic))
        /\ \A i \in 1..Len(fout.val.parsed) :
              /\ fout.val.parsed[i].kind = "value"
              /\ fout.val.parsed[i].branch = "bps"
              /\ IsNearestBpsInMbps(fout.val.parsed[i].val,
                                    FractionsOf(fin.norm_offered_traffic)[i],
                                    MCS_PARAMS[fin.phy_mode].phy_rate,
                                    fin.num_stas)

C21_Witness ==
    /\ fn = "rate_round_trip"
    /\ fin = [phy_mode |-> "DMG_MCS4", num_stas |-> 4,
              norm_offered_traffic |-> [type |-> "float", f |-> 75]]
    /\ fout = Value([rates  |-> << <<"2", "1", "6", "5", "6", "2", "5", "0",
                                     "0", "b", "p", "s">> >>,
                     parsed |-> << [kind |-> "value",
                                    val |-> [whole |-> 216, micro |-> 562500],
                                    branch |-> "bps"] >>])

=============================================================================
